---- MODULE Spec2Model ----
(***************************************************************************)
(* Insight-generation engine of the Intake nutrition tracker               *)
(* (src/server/routes.ts): formatNumber, detectConflicts,                  *)
(* generateRecommendations, calculateHealthScore, determineStatus,         *)
(* generateWeeklySummary and the daily totals of                           *)
(* GET /api/insights/:profileId/:date; and the server itself: MemStorage   *)
(* (src/server/storage.ts), registerRoutes and the handlers of the routes  *)
(* of health profiles, food entries and insights.                          *)
(*                                                                         *)
(* Spec applies one function of the engine to one input.  Server serves    *)
(* requests: each handler runs from one await to the next, and the         *)
(* handlers suspended are resumed in the order in which they were          *)
(* suspended.                                                              *)
(*                                                                         *)
(* Representation.                                                         *)
(*  - A decimal (a number as it is written in JSON or printed by toFixed) *)
(*    is an integer count of 1/Scale units, Scale = 10^4: 45 g is 450000,  *)
(*    5.005 g is 50050.  It also stands for the binary64 value nearest to  *)
(*    it, which is what parsing it yields; the order of the two agrees.    *)
(*  - A computed binary64 value x >= 0 (a running sum) is a record         *)
(*    [d, c, q] with  x * Scale = d + c / 2^q  and  x * 2^q  an integer    *)
(*    below 2^53: d is the decimal the exact arithmetic would give and c   *)
(*    the binary rounding error carried so far.  q is read only when       *)
(*    c # 0.  Additions round to nearest, ties to even, as IEEE 754 does.  *)
(*  - A health score is an integer count of 1/100 points: 10 is 1000.      *)
(*  - A JavaScript string that the code inspects (food names, condition    *)
(*    and allergy labels) is a sequence of one-character strings.          *)
(*  - An optional NutritionData field that is absent is a field missing    *)
(*    from the record's DOMAIN.                                            *)
(***************************************************************************)
EXTENDS Integers, Sequences, FiniteSets, TLC

VARIABLES op, inProfile, inEntries, inConflicts, inMonth, result

\* The server: the time zone and the month of the host, the three maps of
\* MemStorage, the ids handed out so far, the requests (each with the position
\* of its handler and the handler's local variables), the queue of the
\* handlers to resume, and whether a handler was resumed since the queue was
\* last empty.
VARIABLES zone, hostMonth, healthProfiles, foodEntries, storedInsights, nextId,
          requests, jobs, draining

callVars == <<op, inProfile, inEntries, inConflicts, inMonth, result>>

serverVars == <<zone, hostMonth, healthProfiles, foodEntries, storedInsights, nextId,
                requests, jobs, draining>>

vars == <<op, inProfile, inEntries, inConflicts, inMonth, result,
          zone, hostMonth, healthProfiles, foodEntries, storedInsights, nextId,
          requests, jobs, draining>>

----------------------------------------------------------------------------
(* Numbers *)

Scale == 10 ^ 4

\* n thousandths of a unit, e.g. G(5005) is 5.005 g
G(n) == n * (Scale \div 1000)

\* t tenths of a score point in 1/100 points, e.g. Pt(15) is 1.5
Pt(t) == t * 10

Abs(x) == IF x < 0 THEN 0 - x ELSE x

Pow10(d) == 10 ^ d

Max(a, b) == IF a > b THEN a ELSE b

Min(a, b) == IF a < b THEN a ELSE b

\* 2^q modulo 2 * Scale
RECURSIVE Pow2ModUpTo(_)
Pow2ModUpTo(q) ==
    IF q = 0 THEN <<>>
    ELSE LET t == Pow2ModUpTo(q - 1)
         IN  Append(t, ((IF q = 1 THEN 1 ELSE t[q - 1]) * 2) % (2 * Scale))

Pow2ModTable == Pow2ModUpTo(80)

Pow2Mod(q) == IF q = 0 THEN 1 ELSE Pow2ModTable[q]

\* floor(log2(n)) for an integer n >= 1
RECURSIVE Log2(_)
Log2(n) ==
    IF n < 2 THEN 0 ELSE IF n < 4 THEN 1 ELSE IF n < 8 THEN 2
    ELSE IF n < 16 THEN 3 ELSE 4 + Log2(n \div 16)

\* the least k with d * 2^k >= Scale, for a decimal 0 < d
RECURSIVE Doublings(_)
Doublings(d) == IF d >= Scale THEN 0 ELSE 1 + Doublings(2 * d)

\* the binary exponent of a decimal d > 0: 2^binade <= d / Scale < 2^(binade + 1)
binade(d) == IF d >= Scale THEN Log2(d \div Scale) ELSE 0 - Doublings(d)

\* d / Scale is the power of two 2^b
IsPowerOfTwo(d, b) ==
    IF b >= 0 THEN d = Scale * 2 ^ b ELSE d * 2 ^ (0 - b) = Scale

Double(d, c, q) == [d |-> d, c |-> c, q |-> q]

\* Round to nearest, ties to even, on the grid of the multiples of 2^-q: the
\* value to round is  (d + (I + f) / 2^q) / Scale  with I an integer and
\* 0 <= f < 1, fraction telling whether f > 0.
Round(d, q, I, fraction) ==
    LET p == ((d % (2 * Scale)) * Pow2Mod(q)) % (2 * Scale)
        r == p % Scale
        W == r + I
        j == W \div Scale
        rem == W % Scale
        odd == ((IF p >= Scale THEN 1 ELSE 0) + j) % 2 = 1
        up == rem > Scale \div 2 \/ (rem = Scale \div 2 /\ (fraction \/ odd))
    IN  Double(d, (j + (IF up THEN 1 ELSE 0)) * Scale - r, q)

\* The binary64 value of a decimal: Number("5.005"), or a number of a JSON body.
\* Whole numbers are exact.
Number(d) ==
    IF d % Scale = 0 THEN Double(d, 0, 0)
    ELSE Round(d, 52 - binade(d), 0, FALSE)

\* the exponent k of the denominator of the rounding error x.c / 2^x.q of x
\* counted on the grid of the multiples of 2^-q, q <= x.q: x.c / 2^k
ErrorShift(x, q) == IF x.c = 0 THEN 0 ELSE x.q - q

\* the floor of the sum of the rounding errors of x and y on the grid 2^-q
ErrorFloor(x, y, q) ==
    LET px == 2 ^ ErrorShift(x, q)
        py == 2 ^ ErrorShift(y, q)
        pK == Max(px, py)
        num == (x.c % px) * (pK \div px) + (y.c % py) * (pK \div py)
    IN  x.c \div px + y.c \div py + num \div pK

\* x + y on the grid 2^-q
PlusAt(x, y, q) ==
    LET px == 2 ^ ErrorShift(x, q)
        py == 2 ^ ErrorShift(y, q)
        pK == Max(px, py)
        num == (x.c % px) * (pK \div px) + (y.c % py) * (pK \div py)
    IN  Round(x.d + y.d, q, x.c \div px + y.c \div py + num \div pK,
              num % pK # 0)

\* x + y of two binary64 values x, y >= 0
Plus(x, y) ==
    IF x.d = 0 /\ x.c = 0 THEN y
    ELSE IF y.d = 0 /\ y.c = 0 THEN x
    ELSE IF x.c = 0 /\ y.c = 0 /\ x.d % Scale = 0 /\ y.d % Scale = 0
    THEN Double(x.d + y.d, 0, 0)
    ELSE LET b == binade(x.d + y.d)
         IN  \* a sum just below a power of two lies on the finer grid
             IF IsPowerOfTwo(x.d + y.d, b) /\ ErrorFloor(x, y, 52 - b) < 0
             THEN PlusAt(x, y, 53 - b)
             ELSE PlusAt(x, y, 52 - b)

\* Number.prototype.toFixed(decimals) of a binary64 value x >= 0, as a decimal:
\* the multiple of 10^-decimals nearest to the exact value of x, the larger
\* one when x is exactly half way.
toFixed(x, decimals) ==
    LET step == Scale \div Pow10(decimals)
        n == (2 * x.d + step) \div (2 * step)
        halfway == (2 * x.d + step) % (2 * step) = 0
    IN  IF halfway /\ x.c < 0 THEN (n - 1) * step ELSE n * step

\* routes.ts formatNumber followed by the Number(...) every caller applies.
formatNumber(value, decimals) == toFixed(value, decimals)

\* formatNumber(total / days, decimals) for a decimal total and an integer
\* days >= 1.  The quotient of the binary64 value of total is within 2^-52 of
\* total / days, so its rounding error matters only when total / days is
\* exactly half way between two multiples of 10^-decimals.
formatQuotient(total, days, decimals) ==
    LET step == Scale \div Pow10(decimals)
        n == (2 * total + step * days) \div (2 * step * days)
        halfway == (2 * total + step * days) % (2 * step * days) = 0
        x == Number(total)
        h == total \div days
        b == binade(h)
        q == IF IsPowerOfTwo(h, b) /\ x.c < 0 THEN 53 - b ELSE 52 - b
        num == x.c * 2 ^ (IF x.c = 0 THEN 0 ELSE q - x.q)
    IN  IF halfway
        THEN toFixed(Round(h, q, num \div days, num % days # 0), decimals)
        ELSE n * step

\* Math.round(x) for x = num / den with den > 0: floor(x + 1/2)
MathRound(num, den) == (2 * num + den) \div (2 * den)

----------------------------------------------------------------------------
(* Strings *)

UpperChars == <<"A", "B", "C", "D", "E", "F", "G", "H", "I", "J", "K", "L", "M",
                "N", "O", "P", "Q", "R", "S", "T", "U", "V", "W", "X", "Y", "Z">>

LowerChars == <<"a", "b", "c", "d", "e", "f", "g", "h", "i", "j", "k", "l", "m",
                "n", "o", "p", "q", "r", "s", "t", "u", "v", "w", "x", "y", "z">>

lowerChar(c) ==
    IF \E k \in 1..Len(UpperChars) : UpperChars[k] = c
    THEN LowerChars[CHOOSE k \in 1..Len(UpperChars) : UpperChars[k] = c]
    ELSE c

\* String.prototype.toLowerCase
toLowerCase(s) == [i \in 1..Len(s) |-> lowerChar(s[i])]

\* String.prototype.includes
includes(s, needle) ==
    \E i \in 0..(Len(s) - Len(needle)) :
        \A j \in 1..Len(needle) : s[i + j] = needle[j]

RECURSIVE Flatten(_)
Flatten(ss) == IF ss = <<>> THEN <<>> ELSE Head(ss) \o Flatten(Tail(ss))

----------------------------------------------------------------------------
(* Data shapes (src/shared/schema.ts) *)

\* n whole units (grams, milligrams, kcal)
U(n) == n * Scale

NutrientFields == {"calories", "protein", "carbs", "fat", "fiber", "sugar", "sodium"}

\* `nutrition.f || 0`: an absent (undefined) field counts as 0
Nutrient(nutrition, f) == IF f \in DOMAIN nutrition THEN nutrition[f] ELSE 0

\* `profile.medicalConditions || []`, `profile.allergies || []`
ListOrEmpty(profile, f) == IF f \in DOMAIN profile THEN profile[f] ELSE <<>>

ConflictResult(type, severity, description, foodItem) ==
    [type |-> type, severity |-> severity, description |-> description,
     foodItem |-> foodItem]

Recommendation(type, title, description, priority) ==
    [type |-> type, title |-> title, description |-> description,
     priority |-> priority]

\* A template string: its fixed text, the strings and the formatted numbers
\* interpolated into it, and the analyzeWithAI reply appended to it.
Text(text, names, amounts, advice) ==
    [text |-> text, names |-> names, amounts |-> amounts, advice |-> advice]

DailyTotal == <<"D", "a", "i", "l", "y", " ", "t", "o", "t", "a", "l">>

diabetes == <<"d", "i", "a", "b", "e", "t", "e", "s">>

hypertension == <<"h", "y", "p", "e", "r", "t", "e", "n", "s", "i", "o", "n">>

heart == <<"h", "e", "a", "r", "t">>

cardiac == <<"c", "a", "r", "d", "i", "a", "c">>

----------------------------------------------------------------------------
(* analyzeWithAI: a prompt is the set of the keywords that generateSmartResponse
   looks for and that the lower-cased prompt contains. *)

generateSmartResponse(prompt) ==
    IF "diabetes" \in prompt /\ "sugar" \in prompt
    THEN "High sugar content detected. Consider monitoring blood glucose levels and consulting with your healthcare provider about portion sizes."
    ELSE IF "hypertension" \in prompt /\ "sodium" \in prompt
    THEN "Elevated sodium intake identified. This may impact blood pressure management."
    ELSE IF "heart" \in prompt /\ "fat" \in prompt
    THEN "Consider the type of fats consumed. Focus on healthy unsaturated fats from sources like fish, nuts, and olive oil."
    ELSE IF "protein" \in prompt /\ "low" \in prompt
    THEN "Protein intake appears low. Consider adding lean proteins like chicken, fish, legumes, or Greek yogurt."
    ELSE IF "fiber" \in prompt /\ "low" \in prompt
    THEN "Fiber intake could be improved. Add more vegetables, fruits, whole grains, and legumes to your diet."
    ELSE "Overall dietary pattern looks balanced. Continue monitoring your nutritional intake."

analyzeWithAI(prompt) == generateSmartResponse(prompt)

----------------------------------------------------------------------------
(* Aggregation *)

\* the `for (const entry of entries) raw.f += nutrition.f || 0` loops: a
\* running binary64 sum, starting from 0, in the order of the entries
RECURSIVE SumNutrient(_, _)
SumNutrient(entries, f) ==
    IF entries = <<>> THEN Number(0)
    ELSE Plus(SumNutrient(SubSeq(entries, 1, Len(entries) - 1), f),
              Number(Nutrient(entries[Len(entries)].nutritionData, f)))

\* `totalSaturatedFat += (nutrition.fat || 0) * 0.3`.  The rounding error of
\* the products and of their sum is left out: fat is given to at most three
\* decimals, so the products are whole numbers of 1/Scale units, the error
\* stays below 10^-9, and toFixed(2) followed by `> 20`, the only reader of
\* the sum, decides as on the exact sum (no such sum is 20.005).
RECURSIVE SumSaturatedFatExact(_)
SumSaturatedFatExact(entries) ==
    IF entries = <<>> THEN 0
    ELSE (Nutrient(Head(entries).nutritionData, "fat") * 3) \div 10
         + SumSaturatedFatExact(Tail(entries))

SumSaturatedFat(entries) == Double(SumSaturatedFatExact(entries), 0, 0)

\* calories and sodium are formatted to 0 decimals, the rest to 2
Decimals(f) == IF f \in {"calories", "sodium"} THEN 0 ELSE 2

rawTotals(entries) == [f \in NutrientFields |-> SumNutrient(entries, f)]

formattedTotals(entries) ==
    [f \in NutrientFields |-> formatNumber(SumNutrient(entries, f), Decimals(f))]

\* dailyTotals of GET /api/insights/:profileId/:date
dailyTotals(entries) == formattedTotals(entries)

----------------------------------------------------------------------------
(* detectConflicts *)

\* allergyMatches without the toLowerCase calls
allergyMatches_caseSensitive(entry, allergy) == includes(entry.foodName, allergy)

\* routes.ts 617
allergyMatches(entry, allergy) ==
    includes(toLowerCase(entry.foodName), toLowerCase(allergy))

allergyPass(profile, entries) ==
    Flatten([i \in 1..Len(entries) |->
      Flatten([j \in 1..Len(ListOrEmpty(profile, "allergies")) |->
        LET entry == entries[i]
            allergy == ListOrEmpty(profile, "allergies")[j]
        IN  IF allergyMatches(entry, allergy)
            THEN << ConflictResult("allergy", "high",
                      Text("may contain, which you're allergic to",
                           <<entry.foodName, allergy>>, <<>>, ""),
                      entry.foodName) >>
            ELSE <<>>])])

\* diabetesAggregate with `totalSugar >= 50`
diabetesAggregate_inclusive(conditionLower, totalSugar) ==
    IF includes(conditionLower, diabetes) /\ totalSugar >= U(50)
    THEN << ConflictResult("condition",
              IF totalSugar > U(80) THEN "high" ELSE "medium",
              Text("High sugar intake detected with diabetes condition",
                   <<>>, <<formatNumber(Number(totalSugar), 2)>>,
                   analyzeWithAI({"diabetes", "sugar"})),
              DailyTotal) >>
    ELSE <<>>

\* routes.ts 632-640
diabetesAggregate(conditionLower, totalSugar) ==
    IF includes(conditionLower, diabetes) /\ totalSugar > U(50)
    THEN << ConflictResult("condition",
              IF totalSugar > U(80) THEN "high" ELSE "medium",
              Text("High sugar intake detected with diabetes condition",
                   <<>>, <<formatNumber(Number(totalSugar), 2)>>,
                   analyzeWithAI({"diabetes", "sugar"})),
              DailyTotal) >>
    ELSE <<>>

\* hypertensionAggregate with severity `totalSodium >= 3000 ? "high"`
hypertensionAggregate_inclusiveHigh(conditionLower, totalSodium) ==
    IF includes(conditionLower, hypertension) /\ totalSodium > U(2300)
    THEN << ConflictResult("condition",
              IF totalSodium >= U(3000) THEN "high" ELSE "medium",
              Text("High sodium intake with hypertension",
                   <<>>, <<formatNumber(Number(totalSodium), 2)>>,
                   analyzeWithAI({"hypertension", "sodium"})),
              DailyTotal) >>
    ELSE <<>>

\* routes.ts 642-650
hypertensionAggregate(conditionLower, totalSodium) ==
    IF includes(conditionLower, hypertension) /\ totalSodium > U(2300)
    THEN << ConflictResult("condition",
              IF totalSodium > U(3000) THEN "high" ELSE "medium",
              Text("High sodium intake with hypertension",
                   <<>>, <<formatNumber(Number(totalSodium), 2)>>,
                   analyzeWithAI({"hypertension", "sodium"})),
              DailyTotal) >>
    ELSE <<>>

\* heartAggregate emitting a low-severity conflict
heartAggregate_low(conditionLower, totalSaturatedFat) ==
    IF (includes(conditionLower, heart) \/ includes(conditionLower, cardiac))
       /\ totalSaturatedFat > U(20)
    THEN << ConflictResult("condition", "low",
              Text("Elevated saturated fat intake may impact heart health",
                   <<>>, <<>>, ""),
              DailyTotal) >>
    ELSE <<>>

\* routes.ts 652-659
heartAggregate(conditionLower, totalSaturatedFat) ==
    IF (includes(conditionLower, heart) \/ includes(conditionLower, cardiac))
       /\ totalSaturatedFat > U(20)
    THEN << ConflictResult("condition", "medium",
              Text("Elevated saturated fat intake may impact heart health",
                   <<>>, <<>>, ""),
              DailyTotal) >>
    ELSE <<>>

aggregateConditionPass(profile, entries) ==
    LET totalSodium == formatNumber(SumNutrient(entries, "sodium"), 0)
        totalSugar == formatNumber(SumNutrient(entries, "sugar"), 2)
        totalSaturatedFat == formatNumber(SumSaturatedFat(entries), 2)
        conditions == ListOrEmpty(profile, "medicalConditions")
    IN  Flatten([k \in 1..Len(conditions) |->
          LET conditionLower == toLowerCase(conditions[k])
          IN  diabetesAggregate(conditionLower, totalSugar)
              \o hypertensionAggregate(conditionLower, totalSodium)
              \o heartAggregate(conditionLower, totalSaturatedFat)])

\* diabetesEntry with `sugar >= 20`
diabetesEntry_inclusive(condition, entry) ==
    IF includes(toLowerCase(condition), diabetes)
       /\ Nutrient(entry.nutritionData, "sugar") >= U(20)
    THEN << ConflictResult("condition", "medium",
              Text("High sugar content may affect blood sugar levels",
                   <<entry.foodName>>, <<>>, ""),
              entry.foodName) >>
    ELSE <<>>

\* routes.ts 667-674
diabetesEntry(condition, entry) ==
    IF includes(toLowerCase(condition), diabetes)
       /\ Nutrient(entry.nutritionData, "sugar") > U(20)
    THEN << ConflictResult("condition", "medium",
              Text("High sugar content may affect blood sugar levels",
                   <<entry.foodName>>, <<>>, ""),
              entry.foodName) >>
    ELSE <<>>

\* routes.ts 676-683
hypertensionEntry(condition, entry) ==
    IF includes(toLowerCase(condition), hypertension)
       /\ Nutrient(entry.nutritionData, "sodium") > U(500)
    THEN << ConflictResult("condition", "medium",
              Text("High sodium content may affect blood pressure",
                   <<entry.foodName>>, <<>>, ""),
              entry.foodName) >>
    ELSE <<>>

perEntryConditionPass(profile, entries) ==
    LET conditions == ListOrEmpty(profile, "medicalConditions")
    IN  Flatten([k \in 1..Len(conditions) |->
          Flatten([i \in 1..Len(entries) |->
            diabetesEntry(conditions[k], entries[i])
            \o hypertensionEntry(conditions[k], entries[i])])])

\* detectConflicts with the sugar rule hoisted out of the loop over the conditions
detectConflicts_sugarForAll(profile, entries) ==
    allergyPass(profile, entries)
    \o diabetesAggregate(diabetes, formatNumber(SumNutrient(entries, "sugar"), 2))
    \o aggregateConditionPass(profile, entries)
    \o perEntryConditionPass(profile, entries)

detectConflicts(profile, entries) ==
    allergyPass(profile, entries)
    \o aggregateConditionPass(profile, entries)
    \o perEntryConditionPass(profile, entries)

----------------------------------------------------------------------------
(* generateRecommendations; month is `new Date().getMonth()` *)

\* routes.ts 719-727
proteinRecommendation(raw, totals) ==
    IF totals.protein < U(50)
    THEN << Recommendation("diet", "Optimize Protein Intake",
              Text("Current intake", <<>>, <<formatNumber(raw.protein, 2)>>,
                   analyzeWithAI({"protein"})),
              IF totals.protein < U(30) THEN "high" ELSE "medium") >>
    ELSE <<>>

\* fiberRecommendation skipped when no fiber was logged
fiberRecommendation_onlyLogged(raw, totals) ==
    IF totals.fiber > 0 /\ totals.fiber < U(25)
    THEN << Recommendation("diet", "Increase Fiber Intake",
              Text("Current fiber", <<>>, <<formatNumber(raw.fiber, 2)>>, ""),
              "medium") >>
    ELSE <<>>

\* routes.ts 729-736
fiberRecommendation(raw, totals) ==
    IF totals.fiber < U(25)
    THEN << Recommendation("diet", "Increase Fiber Intake",
              Text("Current fiber", <<>>, <<formatNumber(raw.fiber, 2)>>, ""),
              "medium") >>
    ELSE <<>>

\* routes.ts 738-746
sodiumRecommendation(raw, totals) ==
    IF totals.sodium > U(2300)
    THEN << Recommendation("diet", "Reduce Sodium Intake",
              Text("Current sodium", <<>>, <<formatNumber(raw.sodium, 0)>>,
                   analyzeWithAI({"sodium"})),
              IF totals.sodium > U(3000) THEN "high" ELSE "medium") >>
    ELSE <<>>

intakeRecommendations(entries) ==
    LET raw == rawTotals(entries)
        totals == formattedTotals(entries)
    IN  proteinRecommendation(raw, totals)
        \o fiberRecommendation(raw, totals)
        \o sodiumRecommendation(raw, totals)

\* conditionRecommendations without the toLowerCase call
conditionRecommendations_caseSensitive(profile, entries) ==
    LET raw == rawTotals(entries)
        conditions == ListOrEmpty(profile, "medicalConditions")
    IN  Flatten([k \in 1..Len(conditions) |->
          LET conditionLower == conditions[k]
          IN  (IF includes(conditionLower, diabetes)
               THEN << Recommendation("diet", "Blood Sugar Management",
                         Text("Today's carbs, sugars", <<>>,
                              <<formatNumber(raw.carbs, 2), formatNumber(raw.sugar, 2)>>,
                              analyzeWithAI({"sugar"})),
                         "high") >>
               ELSE <<>>)
              \o
              (IF includes(conditionLower, hypertension)
               THEN << Recommendation("lifestyle", "Blood Pressure Support",
                         Text("Monitor sodium intake", <<>>,
                              <<formatNumber(raw.sodium, 0)>>, ""),
                         "high") >>
               ELSE <<>>)
              \o
              (IF includes(conditionLower, heart) \/ includes(conditionLower, cardiac)
               THEN << Recommendation("diet", "Heart-Healthy Nutrition",
                         Text("Today's fat intake", <<>>,
                              <<formatNumber(raw.fat, 2)>>, ""),
                         "high") >>
               ELSE <<>>)])

\* routes.ts 748-779
conditionRecommendations(profile, entries) ==
    LET raw == rawTotals(entries)
        conditions == ListOrEmpty(profile, "medicalConditions")
    IN  Flatten([k \in 1..Len(conditions) |->
          LET conditionLower == toLowerCase(conditions[k])
          IN  (IF includes(conditionLower, diabetes)
               THEN << Recommendation("diet", "Blood Sugar Management",
                         Text("Today's carbs, sugars", <<>>,
                              <<formatNumber(raw.carbs, 2), formatNumber(raw.sugar, 2)>>,
                              analyzeWithAI({"sugar"})),
                         "high") >>
               ELSE <<>>)
              \o
              (IF includes(conditionLower, hypertension)
               THEN << Recommendation("lifestyle", "Blood Pressure Support",
                         Text("Monitor sodium intake", <<>>,
                              <<formatNumber(raw.sodium, 0)>>, ""),
                         "high") >>
               ELSE <<>>)
              \o
              (IF includes(conditionLower, heart) \/ includes(conditionLower, cardiac)
               THEN << Recommendation("diet", "Heart-Healthy Nutrition",
                         Text("Today's fat intake", <<>>,
                              <<formatNumber(raw.fat, 2)>>, ""),
                         "high") >>
               ELSE <<>>)])

\* seasonalRecommendation with `getMonth() <= 6`
seasonalRecommendation_throughJuly(month) ==
    LET currentSeason == IF month <= 6 THEN "spring/summer" ELSE "fall/winter"
    IN  << Recommendation("tcm",
             IF currentSeason = "spring/summer"
             THEN "Seasonal Balance (spring/summer)"
             ELSE "Seasonal Balance (fall/winter)",
             Text(IF currentSeason = "spring/summer"
                  THEN "Include cooling foods like cucumber, watermelon, and green leafy vegetables."
                  ELSE "Include warming foods like ginger, cinnamon, and cooked grains to support digestive health.",
                  <<>>, <<>>, ""),
             "low") >>

\* routes.ts 781-790
seasonalRecommendation(month) ==
    LET currentSeason == IF month < 6 THEN "spring/summer" ELSE "fall/winter"
    IN  << Recommendation("tcm",
             IF currentSeason = "spring/summer"
             THEN "Seasonal Balance (spring/summer)"
             ELSE "Seasonal Balance (fall/winter)",
             Text(IF currentSeason = "spring/summer"
                  THEN "Include cooling foods like cucumber, watermelon, and green leafy vegetables."
                  ELSE "Include warming foods like ginger, cinnamon, and cooked grains to support digestive health.",
                  <<>>, <<>>, ""),
             "low") >>

\* portionRecommendation with `avgCaloriesPerMeal >= 600`
portionRecommendation_inclusive(entries) ==
    LET totals == formattedTotals(entries)
        count == Max(Len(entries), 1)
    IN  IF totals.calories > 0 /\ totals.calories >= U(600) * count
        THEN << Recommendation("lifestyle", "Portion Control",
                  Text("Current average calories per meal", <<>>,
                       <<U(MathRound(totals.calories, count * Scale))>>, ""),
                  "medium") >>
        ELSE <<>>

\* routes.ts 792-803
portionRecommendation(entries) ==
    LET totals == formattedTotals(entries)
        count == Max(Len(entries), 1)
    IN  \* avgCaloriesPerMeal = totals.calories / count, compared with 600
        IF totals.calories > 0 /\ totals.calories > U(600) * count
        THEN << Recommendation("lifestyle", "Portion Control",
                  Text("Current average calories per meal", <<>>,
                       <<U(MathRound(totals.calories, count * Scale))>>, ""),
                  "medium") >>
        ELSE <<>>

generateRecommendations(profile, entries, month) ==
    intakeRecommendations(entries)
    \o conditionRecommendations(profile, entries)
    \o seasonalRecommendation(month)
    \o portionRecommendation(entries)

----------------------------------------------------------------------------
(* calculateHealthScore, in 1/100 points *)

\* conflictDeductions taking 0.25 for a conflict that is neither high nor medium
RECURSIVE conflictDeductions_quarter(_)
conflictDeductions_quarter(conflicts) ==
    IF conflicts = <<>> THEN 0
    ELSE (IF Head(conflicts).severity = "high" THEN Pt(20)
          ELSE IF Head(conflicts).severity = "medium" THEN Pt(10)
          ELSE 25)
         + conflictDeductions_quarter(Tail(conflicts))

\* `for (const conflict of conflicts)`: 2 per high, 1 per medium, 0.5 otherwise
RECURSIVE conflictDeductions(_)
conflictDeductions(conflicts) ==
    IF conflicts = <<>> THEN 0
    ELSE (IF Head(conflicts).severity = "high" THEN Pt(20)
          ELSE IF Head(conflicts).severity = "medium" THEN Pt(10)
          ELSE Pt(5))
         + conflictDeductions(Tail(conflicts))

\* nutritionDeductions without the calorie rule
nutritionDeductions_noCalories(totals) ==
      (IF totals.protein < U(30) THEN Pt(15)
       ELSE IF totals.protein < U(50) THEN Pt(5)
       ELSE IF totals.protein > U(150) THEN Pt(5) ELSE 0)
    + (IF totals.fiber < U(15) THEN Pt(10)
       ELSE IF totals.fiber < U(25) THEN Pt(5) ELSE 0)
    + (IF totals.sodium > U(3500) THEN Pt(20)
       ELSE IF totals.sodium > U(2300) THEN Pt(10) ELSE 0)
    + (IF totals.sugar > U(100) THEN Pt(20)
       ELSE IF totals.sugar > U(50) THEN Pt(10) ELSE 0)

nutritionDeductions(totals) ==
      (IF totals.protein < U(30) THEN Pt(15)
       ELSE IF totals.protein < U(50) THEN Pt(5)
       ELSE IF totals.protein > U(150) THEN Pt(5) ELSE 0)
    + (IF totals.fiber < U(15) THEN Pt(10)
       ELSE IF totals.fiber < U(25) THEN Pt(5) ELSE 0)
    + (IF totals.sodium > U(3500) THEN Pt(20)
       ELSE IF totals.sodium > U(2300) THEN Pt(10) ELSE 0)
    + (IF totals.sugar > U(100) THEN Pt(20)
       ELSE IF totals.sugar > U(50) THEN Pt(10) ELSE 0)
    + (IF totals.calories < U(1200) THEN Pt(15)
       ELSE IF totals.calories > U(3000) THEN Pt(10) ELSE 0)

uniqueFoods(entries) == {toLowerCase(entries[i].foodName) : i \in 1..Len(entries)}

\* varietyBonus with `uniqueFoods.size > 5`
varietyBonus_moreThanFive(entries) ==
    IF Cardinality(uniqueFoods(entries)) > 5 THEN Pt(5) ELSE 0

\* routes.ts 862-865
varietyBonus(entries) ==
    IF Cardinality(uniqueFoods(entries)) >= 5 THEN Pt(5) ELSE 0

RECURSIVE conditionDeductions(_, _)
conditionDeductions(conditions, totals) ==
    IF conditions = <<>> THEN 0
    ELSE LET conditionLower == toLowerCase(Head(conditions))
         IN  (IF includes(conditionLower, diabetes) /\ totals.sugar > U(75)
              THEN Pt(15) ELSE 0)
           + (IF includes(conditionLower, hypertension) /\ totals.sodium > U(2000)
              THEN Pt(10) ELSE 0)
           + conditionDeductions(Tail(conditions), totals)

hasSeverity(c, severity) == c.severity = severity

\* severityDeductions counting the low-severity conflicts as well
severityDeductions_lowToo(conflicts) ==
    LET highSeverityConflicts == Cardinality({i \in 1..Len(conflicts) : hasSeverity(conflicts[i], "high")})
        mediumSeverityConflicts == Cardinality({i \in 1..Len(conflicts) : hasSeverity(conflicts[i], "medium")})
        lowSeverityConflicts == Cardinality({i \in 1..Len(conflicts) : hasSeverity(conflicts[i], "low")})
    IN  highSeverityConflicts * Pt(20) + mediumSeverityConflicts * Pt(10)
        + lowSeverityConflicts * Pt(5)

\* calculateHealthScore without its final subtraction
severityDeductions_skipped(conflicts) == 0

\* routes.ts 880-885
severityDeductions(conflicts) ==
    LET highSeverityConflicts == Cardinality({i \in 1..Len(conflicts) : hasSeverity(conflicts[i], "high")})
        mediumSeverityConflicts == Cardinality({i \in 1..Len(conflicts) : hasSeverity(conflicts[i], "medium")})
    IN  highSeverityConflicts * Pt(20) + mediumSeverityConflicts * Pt(10)

\* the score before `Math.max(1, Math.min(10, Math.round(score * 10) / 10))`
rawScore(profile, entries, conflicts) ==
    LET totals == formattedTotals(entries)
    IN  Pt(100)
        - conflictDeductions(conflicts)
        - nutritionDeductions(totals)
        + varietyBonus(entries)
        - conditionDeductions(ListOrEmpty(profile, "medicalConditions"), totals)
        - severityDeductions(conflicts)

\* clampScore without the Math.min(10, ...)
clampScore_noCeiling(score) == Max(Pt(10), MathRound(score, 10) * 10)

\* Math.max(1, Math.min(10, Math.round(score * 10) / 10))
clampScore(score) == Max(Pt(10), Min(Pt(100), MathRound(score, 10) * 10))

calculateHealthScore(profile, entries, conflicts) ==
    clampScore(rawScore(profile, entries, conflicts))

----------------------------------------------------------------------------
(* determineStatus *)

\* determineStatus treating every conflict that is not high as a caution
determineStatus_anyConflict(conflicts) ==
    IF \E i \in 1..Len(conflicts) : conflicts[i].severity = "high" THEN "avoid"
    ELSE IF Len(conflicts) > 0 THEN "caution"
    ELSE "safe"

\* determineStatus testing medium before high
determineStatus_mediumFirst(conflicts) ==
    IF \E i \in 1..Len(conflicts) : conflicts[i].severity = "medium" THEN "caution"
    ELSE IF \E i \in 1..Len(conflicts) : conflicts[i].severity = "high" THEN "avoid"
    ELSE "safe"

determineStatus(conflicts) ==
    LET hasHighSeverity == \E i \in 1..Len(conflicts) : conflicts[i].severity = "high"
        hasMediumSeverity == \E i \in 1..Len(conflicts) : conflicts[i].severity = "medium"
    IN  IF hasHighSeverity THEN "avoid"
        ELSE IF hasMediumSeverity THEN "caution"
        ELSE "safe"

----------------------------------------------------------------------------
(* generateWeeklySummary *)

\* trackedDays counting the entries instead of their dates
trackedDays_perEntry(entriesThisWeek) == Max(Len(entriesThisWeek), 1)

\* routes.ts 926-928: `days`
trackedDays(entriesThisWeek) ==
    LET uniqueDays == {entriesThisWeek[i].entryDate : i \in 1..Len(entriesThisWeek)}
    IN  Max(Cardinality(uniqueDays), 1)

\* varietyScore without the Math.min
varietyScore_uncapped(entriesThisWeek) == Cardinality(uniqueFoods(entriesThisWeek))

\* routes.ts 935-937
varietyScore(entriesThisWeek) == Min(10, Cardinality(uniqueFoods(entriesThisWeek)))

\* weeklyInsights with `varietyScore <= 5`
weeklyInsights_varietyInclusive(avgCalories, avgProtein, fiber, days, variety) ==
    (IF avgCalories < U(1200)
     THEN <<"Consider increasing caloric intake - current levels may be too low for optimal health">>
     ELSE IF avgCalories > U(2500)
     THEN <<"Caloric intake is above recommended levels - consider portion control">>
     ELSE <<>>)
    \o (IF avgProtein < U(50)
        THEN <<"Protein intake could be improved - aim for more lean proteins">>
        ELSE <<>>)
    \o (IF fiber < U(25) * days
        THEN <<"Increase fiber intake with more fruits, vegetables, and whole grains">>
        ELSE <<>>)
    \o (IF variety <= 5
        THEN <<"Try incorporating more variety in your diet for better nutrition">>
        ELSE <<>>)

\* routes.ts 944-961: the pushes to `insights`.  fiber is weeklyTotals.fiber;
\* `weeklyTotals.fiber / days < 25` is decided by the decimals, the quotient
\* of a decimal with two places being further than its rounding error from 25.
weeklyInsights(avgCalories, avgProtein, fiber, days, variety) ==
    (IF avgCalories < U(1200)
     THEN <<"Consider increasing caloric intake - current levels may be too low for optimal health">>
     ELSE IF avgCalories > U(2500)
     THEN <<"Caloric intake is above recommended levels - consider portion control">>
     ELSE <<>>)
    \o (IF avgProtein < U(50)
        THEN <<"Protein intake could be improved - aim for more lean proteins">>
        ELSE <<>>)
    \o (IF fiber < U(25) * days
        THEN <<"Increase fiber intake with more fruits, vegetables, and whole grains">>
        ELSE <<>>)
    \o (IF variety < 5
        THEN <<"Try incorporating more variety in your diet for better nutrition">>
        ELSE <<>>)

\* routes.ts 900-977.  Math.round(weeklyTotals.calories / days) is MathRound:
\* the calorie total is a whole number, the half-way quotients are binary64
\* values and the division rounds monotonically.
generateWeeklySummary(profile, entriesThisWeek) ==
    LET weeklyTotals == formattedTotals(entriesThisWeek)
        days == trackedDays(entriesThisWeek)
        avgCalories == U(MathRound(weeklyTotals.calories, days * Scale))
        avgProtein == formatQuotient(weeklyTotals.protein, days, 2)
        avgCarbs == formatQuotient(weeklyTotals.carbs, days, 2)
        avgFat == formatQuotient(weeklyTotals.fat, days, 2)
        insights == weeklyInsights(avgCalories, avgProtein, weeklyTotals.fiber,
                                   days, varietyScore(entriesThisWeek))
    IN  [period |-> "This Week",
         calories |-> avgCalories,
         protein |-> avgProtein,
         carbs |-> avgCarbs,
         fat |-> avgFat,
         variety |-> varietyScore(entriesThisWeek),
         insights |-> IF Len(insights) > 0 THEN insights
                      ELSE <<"Your dietary patterns look balanced this week">>,
         aiAnalysis |-> analyzeWithAI({"protein", "fat"}),
         daysTracked |-> days,
         totalFoodsConsumed |-> Cardinality(uniqueFoods(entriesThisWeek))]

----------------------------------------------------------------------------
(* Inputs: a menu of food entries whose sums sit on, just below and just above
   the thresholds, and sample health profiles. *)

Menu == <<
    [foodName |-> <<"P", "e", "a", "n", "u", "t", " ", "B", "u", "t", "t", "e", "r", " ", "S", "a", "n", "d", "w", "i", "c", "h">>,
     nutritionData |-> [calories |-> G(350000), protein |-> G(15000), carbs |-> G(30000), fat |-> G(16000), fiber |-> G(5000), sugar |-> G(5000), sodium |-> G(400000)]],
    [foodName |-> <<"O", "a", "t", "m", "e", "a", "l">>,
     nutritionData |-> [calories |-> G(300000), protein |-> G(12000), carbs |-> G(54000), fat |-> G(5000), fiber |-> G(8000), sugar |-> G(5004), sodium |-> G(500)]],
    [foodName |-> <<"G", "r", "i", "l", "l", "e", "d", " ", "C", "h", "i", "c", "k", "e", "n", " ", "B", "r", "e", "a", "s", "t">>,
     nutritionData |-> [calories |-> G(330000), protein |-> G(100000), carbs |-> G(0), fat |-> G(7200)]],
    [foodName |-> <<"L", "e", "n", "t", "i", "l", " ", "S", "o", "u", "p">>,
     nutritionData |-> [calories |-> G(280000), protein |-> G(18000), carbs |-> G(40000), fat |-> G(3000), fiber |-> G(12000), sugar |-> G(5005), sodium |-> G(500000)]],
    [foodName |-> <<"A", "p", "p", "l", "e">>,
     nutritionData |-> [calories |-> G(95000), protein |-> G(500), carbs |-> G(25000), fat |-> G(300), fiber |-> G(4400), sugar |-> G(20000), sodium |-> G(400)]],
    [foodName |-> <<"A", "P", "P", "L", "E">>,
     nutritionData |-> [calories |-> G(95000), protein |-> G(500), carbs |-> G(25000), fat |-> G(380), fiber |-> G(4400), sugar |-> G(20010), sodium |-> G(2000)]],
    [foodName |-> <<"S", "o", "d", "a">>,
     nutritionData |-> [calories |-> G(600000), protein |-> G(0), carbs |-> G(150000), fat |-> G(0), fiber |-> G(0), sugar |-> G(45000), sodium |-> G(300000)]],
    [foodName |-> <<"C", "h", "o", "c", "o", "l", "a", "t", "e", " ", "C", "a", "k", "e">>,
     nutritionData |-> [calories |-> G(1250000), protein |-> G(12000), carbs |-> G(160000), fat |-> G(30000), fiber |-> G(3000), sugar |-> G(45000), sodium |-> G(700000)]],
    [foodName |-> <<"I", "n", "s", "t", "a", "n", "t", " ", "N", "o", "o", "d", "l", "e", "s">>,
     nutritionData |-> [calories |-> G(900000), protein |-> G(10000), carbs |-> G(120000), fat |-> G(20000), fiber |-> G(2000), sugar |-> G(3000), sodium |-> G(1800000)]] >>

\* the second profile has neither list (both null)
Profiles == <<
    [medicalConditions |-> <<>>,
     allergies |-> <<>>,
     name |-> "Default User"],
    [name |-> "Default User"],
    [medicalConditions |-> << <<"d", "i", "a", "b", "e", "t", "e", "s">> >>,
     allergies |-> <<>>,
     name |-> "Default User"],
    [medicalConditions |-> <<>>,
     allergies |-> << <<"p", "e", "a", "n", "u", "t">> >>,
     name |-> "Default User"],
    [medicalConditions |-> << <<"T", "y", "p", "e", " ", "2", " ", "D", "i", "a", "b", "e", "t", "e", "s">>, <<"H", "y", "p", "e", "r", "t", "e", "n", "s", "i", "o", "n">> >>,
     allergies |-> << <<"P", "e", "a", "n", "u", "t">>, <<"n", "u", "t">> >>,
     name |-> "Default User"],
    [medicalConditions |-> << <<"h", "e", "a", "r", "t", " ", "d", "i", "s", "e", "a", "s", "e">>, <<"C", "a", "r", "d", "i", "a", "c", " ", "a", "r", "r", "h", "y", "t", "h", "m", "i", "a">> >>,
     allergies |-> << <<"B", "U", "T", "T", "E", "R">> >>,
     name |-> "Default User"],
    [medicalConditions |-> << <<"a", "s", "t", "h", "m", "a">> >>,
     allergies |-> << <<"s", "h", "e", "l", "l", "f", "i", "s", "h">> >>,
     name |-> "Default User"],
    [medicalConditions |-> << <<"d", "i", "a", "b", "e", "t", "e", "s">>, <<"g", "e", "s", "t", "a", "t", "i", "o", "n", "a", "l", " ", "d", "i", "a", "b", "e", "t", "e", "s">> >>,
     allergies |-> << <<"a", "p", "p", "l", "e">> >>,
     name |-> "Default User"] >>

MaxEntries == 5

MaxConflicts == 2

RECURSIVE SetToSeq(_)
SetToSeq(S) ==
    IF S = {} THEN <<>>
    ELSE LET m == CHOOSE x \in S : \A y \in S : x <= y
         IN  <<m>> \o SetToSeq(S \ {m})

\* the lists of at most MaxEntries menu entries, in menu order
EntryLists ==
    { [k \in 1..Cardinality(S) |-> Menu[SetToSeq(S)[k]]] :
        S \in {T \in SUBSET (1..Len(Menu)) : Cardinality(T) <= MaxEntries} }

ProfileSet == {Profiles[i] : i \in 1..Len(Profiles)}

Types == <<"allergy", "condition", "medication", "food_interaction">>

Severities == <<"high", "medium", "low">>

\* one conflict per severity, of the type with the same index
ConflictSamples ==
    {ConflictResult(Types[i], Severities[i], Text("", <<>>, <<>>, ""), DailyTotal) :
        i \in 1..Len(Severities)}

RECURSIVE SeqsUpTo(_, _)
SeqsUpTo(S, n) ==
    IF n = 0 THEN {<<>>}
    ELSE LET shorter == SeqsUpTo(S, n - 1)
         IN  shorter \cup {Append(q, x) : q \in shorter, x \in S}

ConflictLists == SeqsUpTo(ConflictSamples, MaxConflicts)

Months == 0..11

\* the last month of spring/summer and the first of fall/winter
SeasonTurn == {5, 6}

MaxPermuted == 3

\* the lists of at most MaxPermuted menu entries, in every order
PermutedLists ==
    { [k \in 1..Len(ix) |-> Menu[ix[k]]] :
        ix \in {jx \in SeqsUpTo(1..Len(Menu), MaxPermuted) :
                  \A a, b \in 1..Len(jx) : a # b => jx[a] # jx[b]} }

\* a week of entries: the dates of the seven days of a week, snacks of
\* 200 kcal under names of their own, and a menu list dated either all on
\* the first day or one entry per day, followed by the first n snacks on
\* consecutive days
WeekDates == <<"2024-03-04", "2024-03-05", "2024-03-06", "2024-03-07",
               "2024-03-08", "2024-03-09", "2024-03-10">>

SnackLetters == <<"a", "b", "c", "d", "e", "f", "g", "h", "i", "j">>

MaxSnacks == 7

Snack(i) ==
    [foodName |-> <<"S", "n", "a", "c", "k", " ", SnackLetters[i]>>,
     nutritionData |-> [calories |-> G(200000), protein |-> G(3350), carbs |-> G(30000), fat |-> G(4500), fiber |-> G(3000), sugar |-> G(8000), sodium |-> G(100000)]]

OnDate(entry, day) ==
    [foodName |-> entry.foodName, nutritionData |-> entry.nutritionData,
     entryDate |-> WeekDates[((day - 1) % Len(WeekDates)) + 1]]

WeekLists ==
    { [k \in 1..Len(entries) |-> OnDate(entries[k], IF spread THEN k ELSE 1)]
      \o [i \in 1..n |-> OnDate(Snack(i), i)] :
        entries \in EntryLists, spread \in BOOLEAN, n \in 0..MaxSnacks }

----------------------------------------------------------------------------
(* Dates.  A calendar day (a 'YYYY-MM-DD' string) is its number in a short
   calendar, an instant (a Date) a count of hours since the start of day 0
   in UTC.  A time zone gives the offset of local time from UTC before and
   from the instant `turn` on; in America/New_York daylight time (UTC-4) ends
   on day 5 at 06:00 UTC.  getDate and setDate work on local time, Date
   parsing and toISOString on UTC.  The local date is kept as a day number:
   setDate(getDate() + n) moves the local date by n days, through the ends of
   months, and keeps the local time of day. *)

Zones ==
    { [name |-> "UTC", before |-> 0, after |-> 0, turn |-> 0],
      [name |-> "America/New_York", before |-> 0 - 4, after |-> 0 - 5,
       turn |-> 5 * 24 + 6] }

UTC == CHOOSE z \in Zones : z.name = "UTC"

\* new Date('YYYY-MM-DD'): midnight UTC of that day
NewDate(date) == date * 24

LocalTime(z, t) == t + (IF t < z.turn THEN z.before ELSE z.after)

\* the instant at which the clocks of the zone show the local time w
FromLocalTime(z, w) ==
    IF w - z.before < z.turn THEN w - z.before ELSE w - z.after

getDate(z, t) == LocalTime(z, t) \div 24

setDate(z, t, day) == FromLocalTime(z, day * 24 + (LocalTime(z, t) % 24))

\* toISOString().split('T')[0]
toISODate(t) == t \div 24

\* routes.ts 447-449: weekStart
weekStart(z, date) ==
    LET currentDate == NewDate(date)
    IN  setDate(z, currentDate, getDate(z, currentDate) - 6)

\* routes.ts 453-455: dateStr of the i-th turn of the loop
dateStr(z, date, i) ==
    LET start == weekStart(z, date)
        checkDate == setDate(z, start, getDate(z, start) + i)
    IN  toISODate(checkDate)

----------------------------------------------------------------------------
(* MemStorage.  healthProfiles is a function from ids to profiles;
   foodEntries and insights are the values of the maps in insertion order,
   which is the order in which a Map is iterated.  Of a profile only the
   fields read by the engine are kept; createdAt of a food entry is a count
   of milliseconds. *)

undefined == [undefined |-> TRUE]

\* { ...existing, ...updates }
Spread(existing, updates) ==
    [k \in DOMAIN existing \cup DOMAIN updates |->
        IF k \in DOMAIN updates THEN updates[k] ELSE existing[k]]

getHealthProfile(profiles, id) ==
    IF id \in DOMAIN profiles THEN profiles[id] ELSE undefined

\* the map after createHealthProfile(insertProfile, id)
createHealthProfile(profiles, insertProfile, id) ==
    LET profile == Spread(insertProfile,
                          [id |-> id,
                           medicalConditions |-> ListOrEmpty(insertProfile, "medicalConditions"),
                           allergies |-> ListOrEmpty(insertProfile, "allergies")])
    IN  [k \in DOMAIN profiles \cup {id} |-> IF k = id THEN profile ELSE profiles[k]]

\* the map after updateHealthProfile(id, updates)
updateHealthProfile(profiles, id, updates) ==
    IF id \notin DOMAIN profiles THEN profiles
    ELSE [profiles EXCEPT ![id] = Spread(profiles[id], updates)]

\* Array.prototype.sort by createdAt, latest first; the sort is stable
RECURSIVE sortByCreatedAt(_)
sortByCreatedAt(entries) ==
    IF entries = <<>> THEN <<>>
    ELSE LET latest == CHOOSE i \in 1..Len(entries) :
                 /\ \A j \in 1..Len(entries) : entries[j].createdAt <= entries[i].createdAt
                 /\ \A j \in 1..(i - 1) : entries[j].createdAt < entries[i].createdAt
         IN  <<entries[latest]>>
             \o sortByCreatedAt(SubSeq(entries, 1, latest - 1)
                                \o SubSeq(entries, latest + 1, Len(entries)))

\* the date of a call that gives none
NoDate == 0 - 1

\* getFoodEntries(profileId, date)
getFoodEntries(entries, profileId, date) ==
    LET wanted(entry) == /\ entry.profileId = profileId
                         /\ (date = NoDate \/ entry.entryDate = date)
    IN  sortByCreatedAt(SelectSeq(entries, wanted))

\* the map after createFoodEntry(insertEntry), with the id and the time given
createFoodEntry(entries, insertEntry, id, createdAt) ==
    Append(entries, Spread(insertEntry, [id |-> id, createdAt |-> createdAt]))

\* the map after deleteFoodEntry(id)
deleteFoodEntry(entries, id) ==
    LET kept(entry) == entry.id # id
    IN  SelectSeq(entries, kept)

hasFoodEntry(entries, id) == \E i \in 1..Len(entries) : entries[i].id = id

\* getInsight(profileId, date): the first stored insight of that profile and date
getInsight(rows, profileId, date) ==
    LET found == {i \in 1..Len(rows) :
                    rows[i].profileId = profileId /\ rows[i].date = date}
    IN  IF found = {} THEN undefined
        ELSE rows[CHOOSE i \in found : \A j \in found : i <= j]

\* the row made by createInsight(insertInsight), with the id given
newInsight(insertInsight, id) == Spread(insertInsight, [id |-> id])

createInsight_replace(rows, insertInsight, id) ==
    LET others(row) == row.profileId # insertInsight.profileId \/ row.date # insertInsight.date
    IN  Append(SelectSeq(rows, others), newInsight(insertInsight, id))

\* the map after createInsight(insertInsight), with the id given
createInsight(rows, insertInsight, id) == Append(rows, newInsight(insertInsight, id))

----------------------------------------------------------------------------
(* The requests.  A request is the route with its parameters, the position pc
   of its handler (the await it is suspended at, or "done"), the local
   variables of the handler and the response.  Every method of MemStorage is
   an async function without an await: it acts when it is called and the
   handler awaiting it is resumed by a job put at the end of the job queue.
   jobs is that queue.  The async functions of routes.ts await others, as
   many as their input asks for: a handler awaiting one is resumed after one
   job or after more. *)

MaxRequests == 3

Pending == [status |-> 0]

Response(status, body) == [status |-> status, body |-> body]

Request(route, params, pc, local) ==
    [route |-> route, params |-> params, pc |-> pc, local |-> local,
     res |-> Pending]

\* the state of the store and of one handler after a step of that handler
After(request, profiles, entries, rows, ids) ==
    [request |-> request, healthProfiles |-> profiles, foodEntries |-> entries,
     rows |-> rows, nextId |-> ids]

Moved(request) == After(request, healthProfiles, foodEntries, storedInsights, nextId)

At(request, pc, local) == [request EXCEPT !.pc = pc, !.local = local]

Done(request, status, body) ==
    [request EXCEPT !.pc = "done", !.res = Response(status, body)]

\* randomUUID()
randomUUID(ids) == ToString(ids + 1)

\* routes.ts 22-31: the profile created by registerRoutes
DefaultUser ==
    [name |-> "Default User", allergies |-> <<>>,
     medicalConditions |-> <<diabetes>>]

\* routes.ts 285-295, 379-389: the profile created for a missing 'default'
DemoUser ==
    [name |-> "Demo User", medicalConditions |-> <<>>, allergies |-> <<>>]

\* routes.ts 298-355: the sample entries of a new 'Demo User'
sampleEntries(date) ==
    << [profileId |-> "default",
        foodName |-> <<"B", "a", "n", "a", "n", "a">>,
        nutritionData |-> [calories |-> G(105000), protein |-> G(1300), carbs |-> G(27000), fat |-> G(300), fiber |-> G(3100), sugar |-> G(14000), sodium |-> G(1000)],
        entryDate |-> date],
       [profileId |-> "default",
        foodName |-> <<"G", "r", "e", "e", "k", " ", "Y", "o", "g", "u", "r", "t">>,
        nutritionData |-> [calories |-> G(100000), protein |-> G(17000), carbs |-> G(6000), fat |-> G(400), fiber |-> G(0), sugar |-> G(6000), sodium |-> G(56000)],
        entryDate |-> date],
       [profileId |-> "default",
        foodName |-> <<"G", "r", "i", "l", "l", "e", "d", " ", "C", "h", "i", "c", "k", "e", "n", " ", "B", "r", "e", "a", "s", "t">>,
        nutritionData |-> [calories |-> G(165000), protein |-> G(31000), carbs |-> G(0), fat |-> G(3600), fiber |-> G(0), sugar |-> G(0), sodium |-> G(74000)],
        entryDate |-> date] >>

registerRoutes_noDefault(request) ==
    IF request.pc = "start"
    THEN Moved(At(request, "defaultProfile",
                  [defaultProfile |-> getHealthProfile(healthProfiles, "default")]))
    ELSE Moved(Done(request, 0, [listening |-> TRUE]))

\* routes.ts 18-33 and 547-548: registerRoutes
registerRoutes(request) ==
    IF request.pc = "start"
    THEN Moved(At(request, "defaultProfile",
                  [defaultProfile |-> getHealthProfile(healthProfiles, "default")]))
    ELSE IF request.pc = "defaultProfile" /\ request.local.defaultProfile = undefined
    THEN After(At(request, "created", request.local),
               createHealthProfile(healthProfiles, DefaultUser, "default"),
               foodEntries, storedInsights, nextId)
    ELSE Moved(Done(request, 0, [listening |-> TRUE]))

\* routes.ts 36-44: POST /api/health-profile
postHealthProfile(request) ==
    IF request.pc = "start"
    THEN LET id == randomUUID(nextId)
             profiles == createHealthProfile(healthProfiles, request.params.body, id)
         IN  After(At(request, "profile", [profile |-> profiles[id]]),
                   profiles, foodEntries, storedInsights, nextId + 1)
    ELSE Moved(Done(request, 200, request.local.profile))

\* routes.ts 58-69: PUT /api/health-profile/:id
putHealthProfile(request) ==
    IF request.pc = "start"
    THEN LET profiles == updateHealthProfile(healthProfiles, request.params.id,
                                             request.params.body)
         IN  After(At(request, "profile",
                      [profile |-> getHealthProfile(profiles, request.params.id)]),
                   profiles, foodEntries, storedInsights, nextId)
    ELSE IF request.local.profile = undefined
    THEN Moved(Done(request, 404, [message |-> "Health profile not found"]))
    ELSE Moved(Done(request, 200, request.local.profile))

\* routes.ts 364: the last read of GET /api/food-entries/:profileId
readEntries(request) ==
    Moved(At(request, "entries",
             [entries |-> getFoodEntries(foodEntries, request.params.profileId,
                                         request.params.date)]))

\* routes.ts 276-369: GET /api/food-entries/:profileId
getFoodEntriesRoute(request, now) ==
    CASE request.pc = "start" ->
            IF request.params.profileId = "default"
            THEN Moved(At(request, "existingProfile",
                          [existingProfile |-> getHealthProfile(healthProfiles, "default")]))
            ELSE readEntries(request)
      [] request.pc = "existingProfile" ->
            IF request.local.existingProfile = undefined
            THEN After(At(request, "demoUser", [i |-> 0]),
                       createHealthProfile(healthProfiles, DemoUser, "default"),
                       foodEntries, storedInsights, nextId)
            ELSE readEntries(request)
      [] request.pc \in {"demoUser", "sample"} ->
            IF request.local.i < Len(sampleEntries(request.params.date))
            THEN After(At(request, "sample", [i |-> request.local.i + 1]),
                       healthProfiles,
                       createFoodEntry(foodEntries,
                                       sampleEntries(request.params.date)[request.local.i + 1],
                                       randomUUID(nextId), now),
                       storedInsights, nextId + 1)
            ELSE readEntries(request)
      [] OTHER -> Moved(Done(request, 200, request.local.entries))

\* routes.ts 393: createFoodEntry of POST /api/food-entries
storeEntry(request, profiles, now) ==
    LET id == randomUUID(nextId)
        entries == createFoodEntry(foodEntries, request.params.body, id, now)
    IN  After(At(request, "entry", [entry |-> entries[Len(entries)]]),
              profiles, entries, storedInsights, nextId + 1)

\* routes.ts 371-398: POST /api/food-entries
postFoodEntry(request, now) ==
    CASE request.pc = "start" ->
            IF request.params.body.profileId = "default"
            THEN Moved(At(request, "existingProfile",
                          [existingProfile |-> getHealthProfile(healthProfiles, "default")]))
            ELSE storeEntry(request, healthProfiles, now)
      [] request.pc = "existingProfile" ->
            IF request.local.existingProfile = undefined
            THEN After(At(request, "demoUser", <<>>),
                       createHealthProfile(healthProfiles, DemoUser, "default"),
                       foodEntries, storedInsights, nextId)
            ELSE storeEntry(request, healthProfiles, now)
      [] request.pc = "demoUser" -> storeEntry(request, healthProfiles, now)
      [] OTHER -> Moved(Done(request, 200, request.local.entry))

\* routes.ts 400-410: DELETE /api/food-entries/:id
deleteFoodEntryRoute(request) ==
    IF request.pc = "start"
    THEN After(At(request, "deleted",
                  [deleted |-> hasFoodEntry(foodEntries, request.params.id)]),
               healthProfiles, deleteFoodEntry(foodEntries, request.params.id),
               storedInsights, nextId)
    ELSE IF request.local.deleted
    THEN Moved(Done(request, 200, [success |-> TRUE]))
    ELSE Moved(Done(request, 404, [message |-> "Food entry not found"]))

\* routes.ts 451-458: one turn of the loop over the week, the push included
readDay(request) ==
    LET local == request.local
        dayEntries == getFoodEntries(foodEntries, request.params.profileId,
                                     dateStr(zone, request.params.date, local.i))
    IN  Moved(At(request, "dayEntries",
                 [local EXCEPT !.i = local.i + 1,
                               !.weeklyEntries = local.weeklyEntries \o dayEntries]))

\* routes.ts 443-444, 462-496: the argument of createInsight
insertInsight(request) ==
    LET local == request.local
    IN  [profileId |-> request.params.profileId,
         date |-> request.params.date,
         conflicts |-> local.conflicts,
         recommendations |-> local.recommendations,
         healthScore |-> calculateHealthScore(local.profile, local.entries, local.conflicts),
         status |-> determineStatus(local.conflicts),
         weeklySummary |-> local.weeklySummary,
         dailyTotals |-> dailyTotals(local.entries)]

regenerate_whenMissing(insight) == insight = undefined

\* routes.ts 431: if (true), "Always regenerate for testing"
regenerate(insight) == TRUE

\* the local variables of the handler of GET /api/insights before any is assigned
insightLocals ==
    [insight |-> undefined, profile |-> undefined, entries |-> <<>>,
     conflicts |-> <<>>, recommendations |-> <<>>, i |-> 0,
     weeklyEntries |-> <<>>, weeklySummary |-> undefined, settling |-> FALSE]

\* routes.ts 413-503: GET /api/insights/:profileId/:date.  pc names the
\* variable that the pending await assigns.
getInsights(request) ==
    LET local == request.local
        profileId == request.params.profileId
        date == request.params.date
    IN  CASE request.pc = "start" ->
                Moved(At(request, "insight",
                         [insightLocals EXCEPT
                            !.insight = getInsight(storedInsights, profileId, date)]))
          [] request.pc = "insight" ->
                IF regenerate(local.insight)
                THEN Moved(At(request, "profile",
                              [local EXCEPT !.profile = getHealthProfile(healthProfiles, profileId)]))
                ELSE Moved(Done(request, 200, local.insight))
          [] request.pc = "profile" ->
                Moved(At(request, "entries",
                         [local EXCEPT !.entries = getFoodEntries(foodEntries, profileId, date)]))
          [] request.pc = "entries" ->
                IF local.profile = undefined
                THEN Moved(Done(request, 404, [message |-> "Health profile not found"]))
                ELSE Moved(At(request, "conflicts",
                              [local EXCEPT !.settling = FALSE, !.conflicts =
                                   detectConflicts(local.profile, local.entries)]))
          [] request.pc = "conflicts" ->
                Moved(At(request, "recommendations",
                         [local EXCEPT !.settling = FALSE, !.recommendations =
                              generateRecommendations(local.profile, local.entries, hostMonth)]))
          [] request.pc = "recommendations" -> readDay(request)
          [] request.pc = "dayEntries" ->
                IF local.i < 7
                THEN readDay(request)
                ELSE Moved(At(request, "weeklySummary",
                              [local EXCEPT !.settling = FALSE, !.weeklySummary =
                                   generateWeeklySummary(local.profile, local.weeklyEntries)]))
          [] request.pc = "weeklySummary" ->
                After(At(request, "created",
                         [local EXCEPT !.insight =
                              newInsight(insertInsight(request), randomUUID(nextId))]),
                      healthProfiles, foodEntries,
                      createInsight(storedInsights, insertInsight(request), randomUUID(nextId)),
                      nextId + 1)
          [] OTHER -> Moved(Done(request, 200, local.insight))

\* routes.ts 441, 442, 460: the handler awaits an async function of routes.ts,
\* which awaits others in turn: its promise can take a further job to settle
settles(request) ==
    /\ request.route = "GET /api/insights/:profileId/:date"
    /\ request.pc \in {"conflicts", "recommendations", "weeklySummary"}
    /\ ~request.local.settling

\* the step of a handler: from its start to its first await, or from one
\* await to the next or to the response; or a job after which it is still
\* suspended
Step(request, now, settled) ==
    IF ~settled
    THEN Moved(At(request, request.pc, [request.local EXCEPT !.settling = TRUE]))
    ELSE
    CASE request.route = "registerRoutes" -> registerRoutes(request)
      [] request.route = "POST /api/health-profile" -> postHealthProfile(request)
      [] request.route = "PUT /api/health-profile/:id" -> putHealthProfile(request)
      [] request.route = "GET /api/food-entries/:profileId" -> getFoodEntriesRoute(request, now)
      [] request.route = "POST /api/food-entries" -> postFoodEntry(request, now)
      [] request.route = "DELETE /api/food-entries/:id" -> deleteFoodEntryRoute(request)
      [] request.route = "GET /api/insights/:profileId/:date" -> getInsights(request)

----------------------------------------------------------------------------
(* One invocation of a function of the engine: op names the function applied,
   the in* variables hold its arguments and result its return value. *)

NoProfile == Profiles[1]

Init ==
    /\ op = "idle"
    /\ inProfile = NoProfile
    /\ inEntries = <<>>
    /\ inConflicts = <<>>
    /\ inMonth = 0
    /\ result = <<>>
    /\ zone = UTC
    /\ hostMonth = 0
    /\ healthProfiles = <<>>
    /\ foodEntries = <<>>
    /\ storedInsights = <<>>
    /\ nextId = 0
    /\ requests = <<>>
    /\ jobs = <<>>
    /\ draining = FALSE

DetectConflicts ==
    /\ op = "idle"
    /\ \E profile \in ProfileSet, entries \in EntryLists :
        /\ op' = "detectConflicts"
        /\ inProfile' = profile
        /\ inEntries' = entries
        /\ result' = detectConflicts(profile, entries)
    /\ UNCHANGED <<inConflicts, inMonth>>
    /\ UNCHANGED serverVars

GenerateRecommendations ==
    /\ op = "idle"
    /\ \E profile \in ProfileSet, entries \in EntryLists :
       \E month \in IF Len(entries) <= 1 THEN Months ELSE SeasonTurn :
        /\ op' = "generateRecommendations"
        /\ inProfile' = profile
        /\ inEntries' = entries
        /\ inMonth' = month
        /\ result' = generateRecommendations(profile, entries, month)
    /\ UNCHANGED inConflicts
    /\ UNCHANGED serverVars

CalculateHealthScore ==
    /\ op = "idle"
    /\ \E profile \in ProfileSet, entries \in EntryLists :
       \E conflicts \in (IF Len(entries) <= 1 THEN ConflictLists ELSE {<<>>})
                         \cup {detectConflicts(profile, entries)} :
        /\ op' = "calculateHealthScore"
        /\ inProfile' = profile
        /\ inEntries' = entries
        /\ inConflicts' = conflicts
        /\ result' = calculateHealthScore(profile, entries, conflicts)
    /\ UNCHANGED inMonth
    /\ UNCHANGED serverVars

DetermineStatus ==
    /\ op = "idle"
    /\ \E conflicts \in ConflictLists \cup
            {detectConflicts(profile, entries) : profile \in ProfileSet, entries \in EntryLists} :
        /\ op' = "determineStatus"
        /\ inConflicts' = conflicts
        /\ result' = determineStatus(conflicts)
    /\ UNCHANGED <<inProfile, inEntries, inMonth>>
    /\ UNCHANGED serverVars

DailyTotals ==
    /\ op = "idle"
    /\ \E entries \in EntryLists \cup PermutedLists :
        /\ op' = "dailyTotals"
        /\ inEntries' = entries
        /\ result' = dailyTotals(entries)
    /\ UNCHANGED <<inProfile, inConflicts, inMonth>>
    /\ UNCHANGED serverVars

GenerateWeeklySummary ==
    /\ op = "idle"
    /\ \E profile \in {Profiles[1], Profiles[3]}, entriesThisWeek \in WeekLists :
        /\ op' = "generateWeeklySummary"
        /\ inProfile' = profile
        /\ inEntries' = entriesThisWeek
        /\ result' = generateWeeklySummary(profile, entriesThisWeek)
    /\ UNCHANGED <<inConflicts, inMonth>>
    /\ UNCHANGED serverVars

Next ==
    \/ DetectConflicts
    \/ GenerateRecommendations
    \/ CalculateHealthScore
    \/ DetermineStatus
    \/ DailyTotals
    \/ GenerateWeeklySummary

Spec == Init /\ [][Next]_vars

----------------------------------------------------------------------------
(* The server.  registerRoutes is called first; requests are served once it
   has returned.  A handler is called by the event loop, which runs the
   queued jobs to the last one before it takes the next event: requests can
   arrive together, before any job has run, and none arrives while jobs are
   run.  The requests served are bounded by MaxRequests. *)

RequestDate == 7

EntryDates == {0, 5, RequestDate}

Soda == Menu[7]

LentilSoup == Menu[4]

NewEntry(profileId, food, date) ==
    [profileId |-> profileId, foodName |-> food.foodName,
     nutritionData |-> food.nutritionData, entryDate |-> date]

NewEntries ==
    {NewEntry("default", Soda, date) : date \in EntryDates}
    \cup {NewEntry("default", LentilSoup, RequestDate), NewEntry("1", Soda, RequestDate)}

NewProfile ==
    [name |-> "Heart", medicalConditions |-> <<Profiles[6].medicalConditions[1]>>]

ProfileIds == {"default", "1"}

EntryIds == {"1", "2"}

\* Date.now() of a new entry: the clock may not have advanced since the last
Now ==
    LET last == IF foodEntries = <<>> THEN 0
                ELSE foodEntries[Len(foodEntries)].createdAt
    IN  {last, last + 1}

ServerInit ==
    /\ op = "idle"
    /\ inProfile = NoProfile
    /\ inEntries = <<>>
    /\ inConflicts = <<>>
    /\ inMonth = 0
    /\ result = <<>>
    /\ zone \in Zones
    /\ hostMonth = 5
    /\ healthProfiles = <<>>
    /\ foodEntries = <<>>
    /\ storedInsights = <<>>
    /\ nextId = 0
    /\ requests = <<Request("registerRoutes", [app |-> TRUE], "start", <<>>)>>
    /\ jobs = <<>>
    /\ draining = FALSE

listening == requests[1].pc = "done"

\* the handlers called and not yet run to their first await
called == {k \in 1..Len(requests) : requests[k].pc = "start"}

Drained_early(queue) == TRUE

\* the event loop takes the next event when no job is left
Drained(queue) == queue = <<>>

\* a request arrives and its handler is called
Dispatch(route, params) ==
    /\ listening
    /\ called = {}
    /\ ~draining
    /\ Len(requests) <= MaxRequests
    /\ requests' = Append(requests, Request(route, params, "start", <<>>))
    /\ UNCHANGED <<zone, hostMonth, healthProfiles, foodEntries, storedInsights,
                   nextId, jobs, draining>>
    /\ UNCHANGED callVars

PostHealthProfile ==
    /\ Dispatch("POST /api/health-profile", [body |-> NewProfile])

PutHealthProfile ==
    /\ \E id \in ProfileIds :
         Dispatch("PUT /api/health-profile/:id",
                  [id |-> id, body |-> [medicalConditions |-> <<>>]])

GetFoodEntries ==
    /\ \E query \in {<<"default", RequestDate>>, <<"1", NoDate>>} :
         Dispatch("GET /api/food-entries/:profileId",
                  [profileId |-> query[1], date |-> query[2]])

PostFoodEntry ==
    /\ \E entry \in NewEntries :
         Dispatch("POST /api/food-entries", [body |-> entry])

DeleteFoodEntry ==
    /\ \E id \in EntryIds :
         Dispatch("DELETE /api/food-entries/:id", [id |-> id])

GetInsights ==
    /\ \E profileId \in ProfileIds :
         Dispatch("GET /api/insights/:profileId/:date",
                  [profileId |-> profileId, date |-> RequestDate])

\* The handler just called runs to its first await; otherwise the handler of
\* the first job of the queue runs to its next await or to its response.  The
\* job that resumes it goes to the end of the queue.
Run ==
    /\ called # {} \/ jobs # <<>>
    /\ \E now \in Now, settled \in BOOLEAN :
        LET k == IF called # {} THEN CHOOSE c \in called : TRUE ELSE Head(jobs)
            rest == IF called # {} THEN jobs ELSE Tail(jobs)
            after == Step(requests[k], now, settled)
        IN  /\ settled \/ settles(requests[k])
            /\ requests' = [requests EXCEPT ![k] = after.request]
            /\ healthProfiles' = after.healthProfiles
            /\ foodEntries' = after.foodEntries
            /\ storedInsights' = after.rows
            /\ nextId' = after.nextId
            /\ jobs' = IF after.request.pc = "done" THEN rest ELSE Append(rest, k)
            /\ draining' = IF called # {} THEN draining ELSE ~Drained(jobs')
    /\ UNCHANGED <<zone, hostMonth>>
    /\ UNCHANGED callVars

ServerNext ==
    \/ PostHealthProfile
    \/ PutHealthProfile
    \/ GetFoodEntries
    \/ PostFoodEntry
    \/ DeleteFoodEntry
    \/ GetInsights
    \/ Run

Server == ServerInit /\ [][ServerNext]_vars

----------------------------------------------------------------------------
(* Properties *)

Conditions(profile) == ListOrEmpty(profile, "medicalConditions")

Allergies(profile) == ListOrEmpty(profile, "allergies")

\* the number of condition labels of the profile containing word, ignoring case
LabelCount(profile, word) ==
    Cardinality({k \in 1..Len(Conditions(profile)) :
                    includes(toLowerCase(Conditions(profile)[k]), word)})

SeveritiesOf(cs) == {cs[i].severity : i \in 1..Len(cs)}

RemoveAt(q, k) == SubSeq(q, 1, k - 1) \o SubSeq(q, k + 1, Len(q))

DailySugar(entries) == formatNumber(SumNutrient(entries, "sugar"), 2)

DailySodium(entries) == formatNumber(SumNutrient(entries, "sodium"), 0)

SugarText == "High sugar intake detected with diabetes condition"

SodiumText == "High sodium intake with hypertension"

EntrySugarText == "High sugar content may affect blood sugar levels"

EntrySodiumText == "High sodium content may affect blood pressure"

\* the positions in cs of the aggregate ('Daily total') conflicts with this text
Aggregates(cs, text) ==
    {i \in 1..Len(cs) : /\ cs[i].type = "condition"
                        /\ cs[i].foodItem = DailyTotal
                        /\ cs[i].description.text = text}

\* C1: for any profile, entry list and conflict list, calculateHealthScore
\* returns a value between 1 and 10 inclusive.
C1_ScoreBounds ==
    op = "calculateHealthScore" => Pt(10) <= result /\ result <= Pt(100)

C1_Witness ==
    /\ op = "calculateHealthScore"
    /\ rawScore(inProfile, inEntries, inConflicts) < Pt(10)
    /\ result = Pt(10)

\* C2: determineStatus is 'avoid' if some conflict is high, otherwise 'caution'
\* if some conflict is medium, otherwise 'safe' (so also for low-only lists).
C2_StatusRule ==
    op = "determineStatus" =>
        result = IF "high" \in SeveritiesOf(inConflicts) THEN "avoid"
                 ELSE IF "medium" \in SeveritiesOf(inConflicts) THEN "caution"
                 ELSE "safe"

C2_Witness ==
    /\ op = "determineStatus"
    /\ SeveritiesOf(inConflicts) = {"low"}
    /\ result = "safe"

\* C3: a list obtained by adding one high conflict, at any position, to a list
\* whose status is 'safe' or 'caution' has status 'avoid'; the list with all
\* conflicts removed has status 'safe'.
C3_StatusMonotone ==
    op = "determineStatus" =>
        /\ \A k \in 1..Len(inConflicts) :
             (/\ inConflicts[k].severity = "high"
              /\ determineStatus(RemoveAt(inConflicts, k)) \in {"safe", "caution"})
             => result = "avoid"
        /\ inConflicts = <<>> => result = "safe"
        /\ determineStatus(SubSeq(inConflicts, 1, 0)) = "safe"

C3_Witness ==
    /\ op = "determineStatus"
    /\ \E k \in 1..Len(inConflicts) :
         /\ inConflicts[k].severity = "high"
         /\ determineStatus(RemoveAt(inConflicts, k)) = "caution"
    /\ result = "avoid"

\* C4: with a condition containing 'diabetes', a daily sugar total of exactly
\* 50.00 g yields no aggregate diabetes conflict and a total of 50.01 g yields
\* one (for each such condition label).
C4_SugarThresholdStrict ==
    (op = "detectConflicts" /\ LabelCount(inProfile, diabetes) > 0) =>
        /\ DailySugar(inEntries) = U(50) => Aggregates(result, SugarText) = {}
        /\ DailySugar(inEntries) = U(50) + G(10) =>
             Cardinality(Aggregates(result, SugarText)) = LabelCount(inProfile, diabetes)

C4_Witness ==
    /\ op = "detectConflicts"
    /\ LabelCount(inProfile, diabetes) = 1
    /\ DailySugar(inEntries) = U(50) + G(10)
    /\ Cardinality(Aggregates(result, SugarText)) = 1

\* the positions in cs of the allergy conflicts
AllergyConflicts(cs) == {i \in 1..Len(cs) : cs[i].type = "allergy"}

\* the (entry, allergy) pairs where the food name contains the label, ignoring case
MatchingPairs(profile, entries) ==
    {pair \in (1..Len(entries)) \X (1..Len(Allergies(profile))) :
        includes(toLowerCase(entries[pair[1]].foodName),
                 toLowerCase(Allergies(profile)[pair[2]]))}

peanut == <<"p", "e", "a", "n", "u", "t">>

\* C5: detectConflicts emits one allergy conflict, high and naming the entry,
\* per (entry, allergy) pair whose food name contains the label ignoring case,
\* and no other allergy conflict; allergies = ['peanut'] with the single entry
\* 'Peanut Butter Sandwich' gives exactly one.
C5_AllergyPass ==
    op = "detectConflicts" =>
        /\ \A i \in AllergyConflicts(result) : result[i].severity = "high"
        /\ Cardinality(AllergyConflicts(result))
             = Cardinality(MatchingPairs(inProfile, inEntries))
        /\ \A e \in 1..Len(inEntries) :
             Cardinality({i \in AllergyConflicts(result) :
                            result[i].foodItem = inEntries[e].foodName})
             = Cardinality({pair \in MatchingPairs(inProfile, inEntries) :
                            inEntries[pair[1]].foodName = inEntries[e].foodName})
        /\ (Allergies(inProfile) = <<peanut>> /\ inEntries = <<Menu[1]>>) =>
             /\ Cardinality(AllergyConflicts(result)) = 1
             /\ \A i \in AllergyConflicts(result) :
                  result[i].foodItem = Menu[1].foodName

C5_Witness ==
    /\ op = "detectConflicts"
    /\ Allergies(inProfile) = <<peanut>>
    /\ inEntries = <<Menu[1]>>
    /\ Len(result) = 1
    /\ result[1].type = "allergy"
    /\ result[1].severity = "high"

\* the number of aggregate conflicts with this text and severity
AggregateCount(cs, text, severity) ==
    Cardinality({i \in Aggregates(cs, text) : cs[i].severity = severity})

\* C6: per condition label, one aggregate 'condition' conflict if the label
\* contains 'diabetes' and the daily sugar total is > 50 g (high if > 80 g,
\* else medium) and one if it contains 'hypertension' and the daily sodium
\* total is > 2300 mg (high if > 3000 mg, else medium); none otherwise.
C6_AggregatePass ==
    op = "detectConflicts" =>
        LET sugar == DailySugar(inEntries)
            sodium == DailySodium(inEntries)
            nDiabetes == LabelCount(inProfile, diabetes)
            nHypertension == LabelCount(inProfile, hypertension)
        IN  /\ AggregateCount(result, SugarText, "high")
                 = IF sugar > U(80) THEN nDiabetes ELSE 0
            /\ AggregateCount(result, SugarText, "medium")
                 = IF sugar > U(50) /\ sugar <= U(80) THEN nDiabetes ELSE 0
            /\ AggregateCount(result, SugarText, "low") = 0
            /\ AggregateCount(result, SodiumText, "high")
                 = IF sodium > U(3000) THEN nHypertension ELSE 0
            /\ AggregateCount(result, SodiumText, "medium")
                 = IF sodium > U(2300) /\ sodium <= U(3000) THEN nHypertension ELSE 0
            /\ AggregateCount(result, SodiumText, "low") = 0

C6_Witness ==
    /\ op = "detectConflicts"
    /\ LabelCount(inProfile, hypertension) = 1
    /\ LabelCount(inProfile, diabetes) = 1
    /\ DailySodium(inEntries) > U(3000)
    /\ DailySugar(inEntries) > U(50)
    /\ DailySugar(inEntries) <= U(80)
    /\ AggregateCount(result, SodiumText, "high") = 1
    /\ AggregateCount(result, SugarText, "medium") = 1

\* the positions in cs of the per-entry conflicts with this text naming this food
EntryConflicts(cs, text, foodName) ==
    {i \in 1..Len(cs) : /\ cs[i].type = "condition"
                        /\ cs[i].severity = "medium"
                        /\ cs[i].description.text = text
                        /\ cs[i].foodItem = foodName}

\* the positions in cs of all conflicts with this text
WithText(cs, text) == {i \in 1..Len(cs) : cs[i].description.text = text}

\* the (condition label, entry) pairs where the label contains word and the
\* entry's nutrient f exceeds limit
OverPairs(profile, entries, word, f, limit) ==
    {pair \in (1..Len(Conditions(profile))) \X (1..Len(entries)) :
        /\ includes(toLowerCase(Conditions(profile)[pair[1]]), word)
        /\ Nutrient(entries[pair[2]].nutritionData, f) > limit}

\* C7: per (condition label, entry) pair, one medium conflict naming the entry
\* if the label contains 'diabetes' and the entry's sugar is > 20 g, and one if
\* it contains 'hypertension' and the entry's sodium is > 500 mg, whether or not
\* an aggregate conflict was emitted; a 'diabetes' profile with entries summing
\* to 90 g sugar gets the aggregate high conflict plus one per entry over 20 g.
C7_PerEntryPass ==
    op = "detectConflicts" =>
        LET sugarPairs == OverPairs(inProfile, inEntries, diabetes, "sugar", U(20))
            sodiumPairs == OverPairs(inProfile, inEntries, hypertension, "sodium", U(500))
        IN  /\ \A e \in 1..Len(inEntries) :
                 /\ Cardinality(EntryConflicts(result, EntrySugarText, inEntries[e].foodName))
                      = Cardinality({pair \in sugarPairs :
                           inEntries[pair[2]].foodName = inEntries[e].foodName})
                 /\ Cardinality(EntryConflicts(result, EntrySodiumText, inEntries[e].foodName))
                      = Cardinality({pair \in sodiumPairs :
                           inEntries[pair[2]].foodName = inEntries[e].foodName})
            /\ Cardinality(WithText(result, EntrySugarText)) = Cardinality(sugarPairs)
            /\ Cardinality(WithText(result, EntrySodiumText)) = Cardinality(sodiumPairs)
            /\ (Conditions(inProfile) = <<diabetes>> /\ DailySugar(inEntries) = U(90)) =>
                 /\ AggregateCount(result, SugarText, "high") = 1
                 /\ Cardinality(Aggregates(result, SugarText)) = 1
                 /\ Cardinality(WithText(result, EntrySugarText))
                      = Cardinality({e \in 1..Len(inEntries) :
                           Nutrient(inEntries[e].nutritionData, "sugar") > U(20)})

C7_Witness ==
    /\ op = "detectConflicts"
    /\ Conditions(inProfile) = <<diabetes>>
    /\ DailySugar(inEntries) = U(90)
    /\ AggregateCount(result, SugarText, "high") = 1
    /\ Cardinality(WithText(result, EntrySugarText)) = 2
    /\ Len(result) = 3

NoConditionsNoAllergies(profile) ==
    Conditions(profile) = <<>> /\ Allergies(profile) = <<>>

\* C8: a profile with no allergies and no medical conditions gets an empty
\* conflict list for every entry list.
C8_NoProfileNoConflicts ==
    (op = "detectConflicts" /\ NoConditionsNoAllergies(inProfile)) => result = <<>>

C8_Witness ==
    /\ op = "detectConflicts"
    /\ NoConditionsNoAllergies(inProfile)
    /\ DailySugar(inEntries) > U(80)
    /\ DailySodium(inEntries) > U(2300)
    /\ result = <<>>

EmptyInput == NoConditionsNoAllergies(inProfile) /\ inEntries = <<>>

TitlesOf(rs) == {rs[i].title : i \in 1..Len(rs)}

SeasonalTitle(month) ==
    IF month < 6 THEN "Seasonal Balance (spring/summer)"
    ELSE "Seasonal Balance (fall/winter)"

\* the parts of the empty-input scenario other than the score
EmptyInputOutputs ==
    /\ (op = "detectConflicts" /\ EmptyInput) =>
          result = <<>> /\ determineStatus(result) = "safe"
    /\ (op = "generateRecommendations" /\ EmptyInput) =>
          /\ Len(result) = 3
          /\ TitlesOf(result) = {"Optimize Protein Intake", "Increase Fiber Intake",
                                 SeasonalTitle(inMonth)}
    /\ (op = "determineStatus" /\ inConflicts = <<>>) => result = "safe"

\* C9 as stated: with no conditions, no allergies and no entries the conflicts
\* are empty, the recommendations are the seasonal one plus protein and fiber,
\* the status is 'safe' and the score is 10 minus the protein and fiber
\* penalties (10 - 1.5 - 1 = 7.5).
C9_AsStated ==
    /\ EmptyInputOutputs
    /\ (op = "calculateHealthScore" /\ EmptyInput /\ inConflicts = <<>>) =>
          result = Pt(100) - Pt(15) - Pt(10)

\* C9, amended: as above, but the score is 10 minus the protein, fiber and
\* low-calorie penalties (10 - 1.5 - 1 - 1.5 = 6).
C9_EmptyInputScenario ==
    /\ EmptyInputOutputs
    /\ (op = "calculateHealthScore" /\ EmptyInput /\ inConflicts = <<>>) =>
          result = Pt(100) - Pt(15) - Pt(10) - Pt(15)

C9_Witness ==
    /\ op = "calculateHealthScore"
    /\ EmptyInput
    /\ inConflicts = <<>>
    /\ result = Pt(60)

AllTotalsZero(totals) ==
    DOMAIN totals = NutrientFields /\ \A f \in NutrientFields : totals[f] = 0

\* the parts of the empty-entry-list outputs other than the recommendations
EmptyEntriesOutputs ==
    /\ (op = "detectConflicts" /\ inEntries = <<>>) =>
          result = <<>> /\ determineStatus(result) = "safe"
    /\ (op = "dailyTotals" /\ inEntries = <<>>) => AllTotalsZero(result)

\* C10 as stated: for an empty entry list detectConflicts and
\* generateRecommendations return empty lists, the status is 'safe' and the
\* seven daily totals are 0.
C10_AsStated ==
    /\ EmptyEntriesOutputs
    /\ (op = "generateRecommendations" /\ inEntries = <<>>) => result = <<>>

\* the number of recommendations generateRecommendations emits for the
\* condition labels of the profile
ConditionRecommendationCount(profile) ==
    Cardinality({k \in 1..Len(Conditions(profile)) :
                    includes(toLowerCase(Conditions(profile)[k]), diabetes)})
    + Cardinality({k \in 1..Len(Conditions(profile)) :
                    includes(toLowerCase(Conditions(profile)[k]), hypertension)})
    + Cardinality({k \in 1..Len(Conditions(profile)) :
                    \/ includes(toLowerCase(Conditions(profile)[k]), heart)
                    \/ includes(toLowerCase(Conditions(profile)[k]), cardiac)})

\* C10, amended: for an empty entry list detectConflicts returns an empty list,
\* the status is 'safe', the seven daily totals are 0, and
\* generateRecommendations returns, never an empty list, the high-priority
\* protein and the fiber recommendation, the recommendations of the profile's
\* conditions and, last, the seasonal one.
C10_EmptyEntries ==
    /\ EmptyEntriesOutputs
    /\ (op = "generateRecommendations" /\ inEntries = <<>>) =>
          /\ Len(result) = 3 + ConditionRecommendationCount(inProfile)
          /\ result[1].title = "Optimize Protein Intake"
          /\ result[1].priority = "high"
          /\ result[2].title = "Increase Fiber Intake"
          /\ result[Len(result)].title = SeasonalTitle(inMonth)
          /\ \A i \in 1..Len(result) :
               result[i].title \notin {"Reduce Sodium Intake", "Portion Control"}

C10_Witness ==
    /\ op = "generateRecommendations"
    /\ inEntries = <<>>
    /\ Len(Conditions(inProfile)) = 2
    /\ Len(result) = 5

----------------------------------------------------------------------------
(* generateRecommendations: seasonal, portion and condition recommendations *)

CoolingText == "Include cooling foods like cucumber, watermelon, and green leafy vegetables."

WarmingText == "Include warming foods like ginger, cinnamon, and cooked grains to support digestive health."

\* the positions of the seasonal recommendations of a list
SeasonalAt(rs) ==
    {i \in 1..Len(rs) :
        rs[i].title \in {"Seasonal Balance (spring/summer)",
                         "Seasonal Balance (fall/winter)"}}

\* C11: every list generateRecommendations returns holds exactly one seasonal
\* recommendation; its priority is 'low' and it is the spring/summer one with
\* the cooling-foods text when the month index is below 6, the fall/winter one
\* with the warming-foods text otherwise.
C11_OneSeasonal ==
    op = "generateRecommendations" =>
        /\ Cardinality(SeasonalAt(result)) = 1
        /\ \A i \in SeasonalAt(result) :
            /\ result[i].priority = "low"
            /\ inMonth < 6 =>
                  /\ result[i].title = "Seasonal Balance (spring/summer)"
                  /\ result[i].description.text = CoolingText
            /\ inMonth >= 6 =>
                  /\ result[i].title = "Seasonal Balance (fall/winter)"
                  /\ result[i].description.text = WarmingText

C11_Witness ==
    /\ op = "generateRecommendations"
    /\ inMonth = 6
    /\ Len(inEntries) >= 2
    /\ Len(result) >= 3
    /\ result[Len(result)].description.text = WarmingText

DailyCalories(entries) == formatNumber(SumNutrient(entries, "calories"), 0)

PortionAt(rs) == {i \in 1..Len(rs) : rs[i].title = "Portion Control"}

\* C12: generateRecommendations emits the 'Portion Control' recommendation,
\* once and with priority 'medium', exactly when the total daily calories
\* divided by max(number of entries, 1) exceed 600.
C12_PortionControl ==
    op = "generateRecommendations" =>
        /\ PortionAt(result) # {}
              <=> DailyCalories(inEntries) > U(600) * Max(Len(inEntries), 1)
        /\ Cardinality(PortionAt(result)) <= 1
        /\ \A i \in PortionAt(result) : result[i].priority = "medium"

C12_Witness ==
    /\ op = "generateRecommendations"
    /\ Len(inEntries) >= 3
    /\ PortionAt(result) # {}
    /\ DailyCalories(inEntries) < U(700) * Len(inEntries)

\* the number of recommendations of a list with the given title and priority
TitleCount(rs, title, priority) ==
    Cardinality({i \in 1..Len(rs) :
                    rs[i].title = title /\ rs[i].priority = priority})

\* the number of condition labels of the profile naming the heart
HeartLabelCount(profile) ==
    Cardinality({k \in 1..Len(Conditions(profile)) :
                    \/ includes(toLowerCase(Conditions(profile)[k]), heart)
                    \/ includes(toLowerCase(Conditions(profile)[k]), cardiac)})

\* C13: whatever the entries are, generateRecommendations emits one
\* high-priority blood-sugar recommendation per condition label containing
\* 'diabetes', one high-priority blood-pressure recommendation per label
\* containing 'hypertension' and one high-priority heart-healthy recommendation
\* per label containing 'heart' or 'cardiac', and no other of these three.
C13_ConditionRecommendations ==
    op = "generateRecommendations" =>
        /\ TitleCount(result, "Blood Sugar Management", "high")
              = LabelCount(inProfile, diabetes)
        /\ TitleCount(result, "Blood Pressure Support", "high")
              = LabelCount(inProfile, hypertension)
        /\ TitleCount(result, "Heart-Healthy Nutrition", "high")
              = HeartLabelCount(inProfile)
        /\ \A i \in 1..Len(result) :
              result[i].title \in {"Blood Sugar Management", "Blood Pressure Support",
                                   "Heart-Healthy Nutrition"}
                => result[i].priority = "high"

C13_Witness ==
    /\ op = "generateRecommendations"
    /\ inEntries = <<>>
    /\ LabelCount(inProfile, diabetes) = 2
    /\ TitleCount(result, "Blood Sugar Management", "high") = 2

----------------------------------------------------------------------------
(* calculateHealthScore: nutrition penalties and condition penalties *)

DailyProtein(entries) == formatNumber(SumNutrient(entries, "protein"), 2)

DailyFiber(entries) == formatNumber(SumNutrient(entries, "fiber"), 2)

Penalty(triggered, points) == IF triggered THEN points ELSE 0

\* the tiered nutrition penalties, each tier written as what it adds to the
\* tier before it
TieredPenalties(entries) ==
      Penalty(DailyProtein(entries) < U(50), Pt(5))
    + Penalty(DailyProtein(entries) < U(30), Pt(10))
    + Penalty(DailyProtein(entries) > U(150), Pt(5))
    + Penalty(DailyFiber(entries) < U(25), Pt(5))
    + Penalty(DailyFiber(entries) < U(15), Pt(5))
    + Penalty(DailySodium(entries) > U(2300), Pt(10))
    + Penalty(DailySodium(entries) > U(3500), Pt(10))
    + Penalty(DailySugar(entries) > U(50), Pt(10))
    + Penalty(DailySugar(entries) > U(100), Pt(10))
    + Penalty(DailyCalories(entries) < U(1200), Pt(15))
    + Penalty(DailyCalories(entries) > U(3000), Pt(10))

\* the number of entries whose food name, ignoring case, no earlier entry has
DistinctNames(entries) ==
    Cardinality({i \in 1..Len(entries) :
        \A j \in 1..(i - 1) :
            toLowerCase(entries[j].foodName) # toLowerCase(entries[i].foodName)})

Clamp(score) == Max(Pt(10), Min(Pt(100), score))

\* C14: with an empty conflict list and a profile without conditions the score
\* is 10 minus the tiered nutrition penalties on the formatted daily totals,
\* plus 0.5 when the entries have at least 5 distinct food names ignoring
\* case, clamped to [1, 10].
C14_NutritionScore ==
    (op = "calculateHealthScore" /\ inConflicts = <<>> /\ Conditions(inProfile) = <<>>) =>
        result = Clamp(Pt(100) - TieredPenalties(inEntries)
                       + Penalty(DistinctNames(inEntries) >= 5, Pt(5)))

C14_Witness ==
    /\ op = "calculateHealthScore"
    /\ inConflicts = <<>>
    /\ Conditions(inProfile) = <<>>
    /\ DistinctNames(inEntries) = 5
    /\ DailySodium(inEntries) > U(3500)
    /\ DailyCalories(inEntries) > U(3000)
    /\ result = Pt(100) - TieredPenalties(inEntries) + Pt(5)

WithoutConditions(profile) ==
    [medicalConditions |-> <<>>, allergies |-> Allergies(profile)]

\* C15: the conditions of the profile lower the score by 1.5 when a label
\* contains 'diabetes' and the total sugar exceeds 75 g, and by 1 when a label
\* contains 'hypertension' and the total sodium exceeds 2000 mg, each once,
\* however many labels match.
C15_PenaltyOnce ==
    op = "calculateHealthScore" =>
        result = Clamp(rawScore(WithoutConditions(inProfile), inEntries, inConflicts)
                       - Penalty(LabelCount(inProfile, diabetes) > 0
                                 /\ DailySugar(inEntries) > U(75), Pt(15))
                       - Penalty(LabelCount(inProfile, hypertension) > 0
                                 /\ DailySodium(inEntries) > U(2000), Pt(10)))

----------------------------------------------------------------------------
(* generateWeeklySummary: averages, variety and insights *)

\* the days of the week on which at least one entry is dated
DatesPresent(entries) ==
    {d \in 1..Len(WeekDates) :
        \E i \in 1..Len(entries) : entries[i].entryDate = WeekDates[d]}

Divisor(entries) ==
    IF DatesPresent(entries) = {} THEN 1 ELSE Cardinality(DatesPresent(entries))

\* avg is the whole number nearest to total / days, halves going up
RoundedAverage(avg, total, days) ==
    /\ avg % Scale = 0
    /\ 2 * total - days * Scale < 2 * avg * days
    /\ 2 * avg * days <= 2 * total + days * Scale

\* avg has two decimals and is a nearest such number to total / days
FormattedAverage(avg, total, days) ==
    /\ avg % (Scale \div 100) = 0
    /\ 2 * (avg * days - total) <= (Scale \div 100) * days
    /\ 2 * (total - avg * days) <= (Scale \div 100) * days

SevenSnackDays(entries) ==
    /\ Len(entries) = 7
    /\ \A i \in 1..7 : entries[i].nutritionData.calories = G(200000)
    /\ Cardinality(DatesPresent(entries)) = 7

\* C16: the weekly summary divides the formatted weekly totals by the number
\* of distinct entry dates, at least 1: daysTracked is that divisor, calories
\* the average rounded to a whole number, protein, carbs and fat the averages
\* with two decimals; 7 entries of 200 kcal on 7 dates give 200 and 7.
C16_WeeklyAverages ==
    op = "generateWeeklySummary" =>
        LET days == Divisor(inEntries)
            totals == formattedTotals(inEntries)
        IN  /\ result.daysTracked = days
            /\ RoundedAverage(result.calories, totals.calories, days)
            /\ FormattedAverage(result.protein, totals.protein, days)
            /\ FormattedAverage(result.carbs, totals.carbs, days)
            /\ FormattedAverage(result.fat, totals.fat, days)
            /\ (inEntries = <<>> => result.daysTracked = 1 /\ result.calories = 0)
            /\ (SevenSnackDays(inEntries) =>
                    result.calories = U(200) /\ result.daysTracked = 7)

C16_Witness ==
    /\ op = "generateWeeklySummary"
    /\ SevenSnackDays(inEntries)
    /\ result.calories = U(200)
    /\ result.daysTracked = 7
    /\ result.protein = G(3350)

\* C17: variety is min(10, number of distinct food names ignoring case) and
\* totalFoodsConsumed that number without the cap, so variety is at most
\* totalFoodsConsumed and lies in 0..10.
C17_Variety ==
    op = "generateWeeklySummary" =>
        /\ result.variety = Min(10, DistinctNames(inEntries))
        /\ result.totalFoodsConsumed = DistinctNames(inEntries)
        /\ result.variety <= result.totalFoodsConsumed
        /\ result.variety \in 0..10

C17_Witness ==
    /\ op = "generateWeeklySummary"
    /\ DistinctNames(inEntries) > 10
    /\ result.variety = 10
    /\ result.totalFoodsConsumed = DistinctNames(inEntries)

LowCaloriesText == "Consider increasing caloric intake - current levels may be too low for optimal health"

HighCaloriesText == "Caloric intake is above recommended levels - consider portion control"

LowProteinText == "Protein intake could be improved - aim for more lean proteins"

LowFiberText == "Increase fiber intake with more fruits, vegetables, and whole grains"

LowVarietyText == "Try incorporating more variety in your diet for better nutrition"

BalancedText == "Your dietary patterns look balanced this week"

Occurrences(list, text) == Cardinality({i \in 1..Len(list) : list[i] = text})

\* C18: the insights hold one string per triggered rule (average calories
\* below 1200 or above 2500, average protein below 50, fiber per day below
\* 25, variety below 5) and the single 'balanced' message when no rule is
\* triggered: 1 to 4 strings, the default never beside a triggered one.
C18_Insights ==
    op = "generateWeeklySummary" =>
        LET days == Divisor(inEntries)
            triggered ==
                  Penalty(result.calories < U(1200), 1)
                + Penalty(result.calories > U(2500), 1)
                + Penalty(result.protein < U(50), 1)
                + Penalty(DailyFiber(inEntries) < U(25) * days, 1)
                + Penalty(result.variety < 5, 1)
        IN  /\ Occurrences(result.insights, LowCaloriesText)
                = Penalty(result.calories < U(1200), 1)
            /\ Occurrences(result.insights, HighCaloriesText)
                = Penalty(result.calories > U(2500), 1)
            /\ Occurrences(result.insights, LowProteinText)
                = Penalty(result.protein < U(50), 1)
            /\ Occurrences(result.insights, LowFiberText)
                = Penalty(DailyFiber(inEntries) < U(25) * days, 1)
            /\ Occurrences(result.insights, LowVarietyText)
                = Penalty(result.variety < 5, 1)
            /\ Occurrences(result.insights, BalancedText)
                = Penalty(triggered = 0, 1)
            /\ Len(result.insights) = Max(triggered, 1)
            /\ Len(result.insights) \in 1..4

C18_Witness ==
    /\ op = "generateWeeklySummary"
    /\ result.insights = <<BalancedText>>
    /\ result.variety = 5
    /\ result.calories >= U(1200)

----------------------------------------------------------------------------
(* dailyTotals: the order of the entries *)

Reordered(entries, order) == [k \in 1..Len(entries) |-> entries[order[k]]]

\* C19: a permutation of the entry list leaves every formatted nutrient total
\* (calories, protein, carbs, fat, fiber, sodium, sugar) unchanged.
C19_OrderIndependence ==
    op = "dailyTotals" =>
        \A order \in Permutations(1..Len(inEntries)) :
            \A f \in NutrientFields :
                dailyTotals(Reordered(inEntries, order))[f] = result[f]

----------------------------------------------------------------------------
(* detectConflicts: the heart rule *)

RECURSIVE ExactTotal(_, _)
ExactTotal(entries, f) ==
    IF entries = <<>> THEN 0
    ELSE Nutrient(Head(entries).nutritionData, f) + ExactTotal(Tail(entries), f)

HeartText == "Elevated saturated fat intake may impact heart health"

HeartConflicts(conflicts) ==
    {i \in 1..Len(conflicts) :
        /\ conflicts[i].type = "condition"
        /\ conflicts[i].severity = "medium"
        /\ conflicts[i].foodItem = DailyTotal
        /\ conflicts[i].description.text = HeartText}

\* C23: detectConflicts emits one medium 'Daily total' condition conflict per
\* condition label containing 'heart' or 'cardiac' (one also for a label with
\* both words) exactly when 30% of the day's total fat is strictly greater
\* than 20 g, and none otherwise.
C23_HeartRule ==
    op = "detectConflicts" =>
        Cardinality(HeartConflicts(result))
            = IF 3 * ExactTotal(inEntries, "fat") > 10 * U(20)
              THEN HeartLabelCount(inProfile) ELSE 0

----------------------------------------------------------------------------
(* calculateHealthScore and determineStatus: conflict severities *)

SeverityCount(conflicts, severity) ==
    Cardinality({i \in 1..Len(conflicts) : conflicts[i].severity = severity})

\* C24: before clamping, every high-severity conflict lowers the score by 4
\* (2 in the loop over the conflicts, 2 in the final subtraction), every
\* medium-severity conflict by 2 and every low-severity conflict by 0.5.
C24_DeductedTwice ==
    op = "calculateHealthScore" =>
        result = Clamp(rawScore(inProfile, inEntries, <<>>)
                       - SeverityCount(inConflicts, "high") * Pt(40)
                       - SeverityCount(inConflicts, "medium") * Pt(20)
                       - SeverityCount(inConflicts, "low") * Pt(5))

C24_Witness ==
    /\ op = "calculateHealthScore"
    /\ SeverityCount(inConflicts, "high") = 1
    /\ SeverityCount(inConflicts, "low") = 1
    /\ SeverityCount(inConflicts, "medium") = 0
    /\ result = Pt(15)
    /\ rawScore(inProfile, inEntries, <<>>) = Pt(60)

\* C26: for conflicts of severity low, medium or high the score is a multiple
\* of 0.5 between 1 and 10.
C26_HalfPoints ==
    op = "calculateHealthScore" =>
        /\ result % Pt(5) = 0
        /\ result >= Pt(10)
        /\ result <= Pt(100)

C26_Witness ==
    /\ op = "calculateHealthScore"
    /\ SeverityCount(inConflicts, "low") = 1
    /\ result % Pt(10) = Pt(5)
    /\ result > Pt(10)

\* C27: a conflict list with status 'avoid' scores at most 6.5 and one with
\* status 'caution' at most 8.5, so a score above 8.5 comes with 'safe'.
C27_ScoreAndStatus ==
    op = "calculateHealthScore" =>
        /\ determineStatus(inConflicts) = "avoid" => result <= Pt(65)
        /\ determineStatus(inConflicts) = "caution" => result <= Pt(85)
        /\ result > Pt(85) => determineStatus(inConflicts) = "safe"

C27_Witness ==
    /\ op = "calculateHealthScore"
    /\ inConflicts = detectConflicts(inProfile, inEntries)
    /\ determineStatus(inConflicts) = "avoid"
    /\ result = Pt(65)

\* C28: detectConflicts emits only 'allergy' and 'condition' conflicts of
\* severity 'medium' or 'high', every allergy conflict being 'high'; so the
\* status of its result is 'safe' exactly when the result is empty.
C28_EmittedConflicts ==
    op = "detectConflicts" =>
        /\ \A i \in 1..Len(result) :
            /\ result[i].type \in {"allergy", "condition"}
            /\ result[i].severity \in {"medium", "high"}
            /\ result[i].type = "allergy" => result[i].severity = "high"
        /\ determineStatus(result) = "safe" <=> result = <<>>

C28_Witness ==
    /\ op = "detectConflicts"
    /\ \E i \in 1..Len(result) : result[i].type = "allergy"
    /\ HeartConflicts(result) # {}
    /\ determineStatus(result) = "avoid"

----------------------------------------------------------------------------
(* GET /api/insights/:profileId/:date on the server *)

InsightRequests ==
    {k \in 1..Len(requests) : requests[k].route = "GET /api/insights/:profileId/:date"}

Elements(list) == {list[j] : j \in 1..Len(list)}

\* the stored entries of a profile dated in the seven days ending at date
StoredInWeek(profileId, date) ==
    {entry \in Elements(foodEntries) :
        /\ entry.profileId = profileId
        /\ entry.entryDate \in (date - 6)..date}

\* the handler has read the seven days of its loop
WeekRead(request) == request.pc = "dayEntries" /\ request.local.i = 7

\* C25: the weekly entries are exactly the stored entries of the profile dated
\* in the seven consecutive days ending at the requested date, each once.
C25_WeeklyWindow ==
    \A k \in InsightRequests :
        WeekRead(requests[k]) =>
            LET weeklyEntries == requests[k].local.weeklyEntries
            IN  /\ Elements(weeklyEntries)
                     = StoredInWeek(requests[k].params.profileId, requests[k].params.date)
                /\ Cardinality(Elements(weeklyEntries)) = Len(weeklyEntries)

\* the stored entries of a profile read day by day as the loop of the handler does
RECURSIVE ReadWeek(_, _, _)
ReadWeek(profileId, date, days) ==
    IF days = 0 THEN <<>>
    ELSE ReadWeek(profileId, date, days - 1)
         \o getFoodEntries(foodEntries, profileId, dateStr(zone, date, days - 1))

\* the insight that the stored profile and the stored entries give
Computed(profileId, date) ==
    LET profile == healthProfiles[profileId]
        entries == getFoodEntries(foodEntries, profileId, date)
        conflicts == detectConflicts(profile, entries)
    IN  [profileId |-> profileId,
         date |-> date,
         conflicts |-> conflicts,
         recommendations |-> generateRecommendations(profile, entries, hostMonth),
         healthScore |-> calculateHealthScore(profile, entries, conflicts),
         status |-> determineStatus(conflicts),
         weeklySummary |-> generateWeeklySummary(profile, ReadWeek(profileId, date, 7)),
         dailyTotals |-> dailyTotals(entries)]

Ids(rows) == {rows[j].id : j \in 1..Len(rows)}

\* the handler of request k inserts a row in this step
Inserts(k) == requests[k].pc = "weeklySummary" /\ requests'[k].pc = "created"

\* the handler of request k responds in this step
Responds(k) == requests[k].pc # "done" /\ requests'[k].pc = "done"

\* C21: whatever requests were served before, the insight returned is the one
\* that the profile and the entries stored at that time give, under an id that
\* no stored insight had before the request inserted it.
C21_FreshInsight ==
    [][\A k \in InsightRequests :
         LET profileId == requests[k].params.profileId
             date == requests[k].params.date
         IN  /\ Inserts(k) =>
                  /\ requests'[k].local.insight.id \notin Ids(storedInsights)
                  /\ requests'[k].local.insight
                       = newInsight(Computed(profileId, date), requests'[k].local.insight.id)
             /\ (Responds(k) /\ requests'[k].res.status = 200) =>
                  /\ requests[k].pc = "created"
                  /\ requests'[k].res.body
                       = newInsight(Computed(profileId, date), requests[k].local.insight.id)]_vars

\* an insight was returned while an older, different one is stored for the
\* same profile and date
C21_Witness ==
    \E k \in InsightRequests :
        /\ requests[k].pc = "done"
        /\ requests[k].res.status = 200
        /\ \E j \in 1..Len(storedInsights) :
            LET row == storedInsights[j]
                body == requests[k].res.body
            IN  /\ row.profileId = body.profileId
                /\ row.date = body.date
                /\ row.id # body.id
                /\ \E i \in (j + 1)..Len(storedInsights) : storedInsights[i] = body
                /\ newInsight(row, body.id) # body

\* the handler has read the day and the week
Summarised(request) ==
    \/ WeekRead(request)
    \/ request.pc \in {"weeklySummary", "created"}
    \/ request.pc = "done" /\ request.res.status = 200

OfDate(entries, date) ==
    LET dated(entry) == entry.entryDate = date
    IN  SelectSeq(entries, dated)

\* C22: with other requests served meanwhile, the entries of the requested date
\* counted in the weekly summary are the entries that the conflicts and the
\* daily totals are computed from.
C22_OneSnapshot ==
    \A k \in InsightRequests :
        Summarised(requests[k]) =>
            OfDate(requests[k].local.weeklyEntries, requests[k].params.date)
                = requests[k].local.entries

\* an insight counts an entry created by a request that arrived after its own
C22_Witness ==
    \E k \in InsightRequests :
        /\ requests[k].pc = "done"
        /\ requests[k].res.status = 200
        /\ \E j \in (k + 1)..Len(requests) :
            /\ requests[j].route = "POST /api/food-entries"
            /\ requests[j].pc = "done"
            /\ requests[j].res.body.id \in Ids(requests[k].local.entries)
            /\ requests[j].res.body.id \in Ids(requests[k].local.weeklyEntries)

\* a request that has inserted its insight
Succeeded(request) ==
    \/ request.pc = "created"
    \/ request.pc = "done" /\ request.res.status = 200

RowsOf(profileId, date) ==
    {j \in 1..Len(storedInsights) :
        storedInsights[j].profileId = profileId /\ storedInsights[j].date = date}

SucceededFor(profileId, date) ==
    {k \in InsightRequests :
        /\ requests[k].params.profileId = profileId
        /\ requests[k].params.date = date
        /\ Succeeded(requests[k])}

C30_DefaultExists ==
    listening =>
        /\ "default" \in DOMAIN healthProfiles
        /\ \A k \in 1..Len(requests) : requests[k].pc \notin {"demoUser", "sample"}

\* both handlers with a 'Demo User' branch have served the profile 'default'
C30_Witness ==
    /\ \E k \in 1..Len(requests) :
        /\ requests[k].route = "GET /api/food-entries/:profileId"
        /\ requests[k].params.profileId = "default"
        /\ requests[k].pc = "done"
    /\ \E k \in 1..Len(requests) :
        /\ requests[k].route = "POST /api/food-entries"
        /\ requests[k].params.body.profileId = "default"
        /\ requests[k].pc = "done"

====
